---- MODULE Spec2Model ----
(***************************************************************************)
(* SRT subtitle parser of srt-to-docx-converter: the two parser            *)
(* implementations, srt_parser.SRTParser (src/srt_parser.py) and           *)
(* app.SRTParser (src/app.py).                                             *)
(*                                                                         *)
(* Text is a sequence of Unicode code points (a Python str), a byte buffer *)
(* a sequence of integers 0..255 (a Python bytes).  A subtitle record is   *)
(* [index, start_time, end_time, text].                                    *)
(***************************************************************************)
EXTENDS Integers, Sequences, FiniteSets, TLC

(***************************************************************************)
(* Characters that the source names in its literals and patterns.          *)
(***************************************************************************)
NL == 10
CR == 13
COMMA == 44
DASH == 45
DOT == 46
COLON == 58
LT == 60
GT == 62
LBRACE == 123
RBRACE == 125
BOM == 65279

\* str.isspace() and the pattern class \s on str patterns: Unicode White_Space
\* plus the separators U+001C..U+001F.
IsSpace(c) ==
    c \in {9, 10, 11, 12, 13, 28, 29, 30, 31, 32, 133, 160, 5760, 8232, 8233,
           8239, 8287, 12288} \/ (c >= 8192 /\ c <= 8202)

\* sys.get_int_max_str_digits(): int() raises ValueError for a string of
\* more decimal digits than this.
int_max_str_digits == 4300

\* One position of a text that stands for a run of int_max_str_digits + 1
\* characters '9': texts with an integer too long for int() are kept short
\* this way.
NINES == 0 - 1

\* The code points of the digit zero of every script of Unicode (general
\* category Nd): the digits of a script are its zero and the nine code
\* points after it.
DigitZeros ==
    {48, 1632, 1776, 1984, 2406, 2534, 2662, 2790, 2918, 3046, 3174, 3302,
     3430, 3558, 3664, 3792, 3872, 4160, 4240, 6112, 6160, 6470, 6608, 6784,
     6800, 6992, 7088, 7232, 7248, 42528, 43216, 43264, 43472, 43504, 43600,
     44016, 65296, 66720, 68912, 69734, 69872, 69942, 70096, 70384, 70736,
     70864, 71248, 71360, 71472, 71904, 72016, 72784, 73040, 73120, 92768,
     92864, 93008, 120782, 120792, 120802, 120812, 120822, 123200, 123632,
     125264, 130032}

\* The pattern class \d on str patterns, which int() also accepts: the
\* decimal digits of Unicode.
IsDigit(c) ==
    IF c < 128 THEN (c >= 48 /\ c <= 57) \/ c = NINES
    ELSE \E z \in DigitZeros : c >= z /\ c <= z + 9

DigitValue(c) ==
    IF c < 128 THEN c - 48
    ELSE c - (CHOOSE z \in DigitZeros : c >= z /\ c <= z + 9)

\* s[i..j) with 1-based i, as a sequence; empty when i >= j.
Slice(s, i, j) == SubSeq(s, i, j - 1)

(***************************************************************************)
(* str methods used by the parsers.                                        *)
(***************************************************************************)
\* The first index j in i..n with P(j), n + 1 if there is none (i <= n + 1).
FirstFrom(i, n, P(_)) ==
    CHOOSE j \in i..(n + 1) : (j = n + 1 \/ P(j)) /\ \A k \in i..(j - 1) : ~P(k)

\* The last index k in 1..j with P(k), 0 if there is none (j >= 0).
LastUpTo(j, P(_)) ==
    j - (CHOOSE d \in 0..j :
             (d = j \/ P(j - d)) /\ \A e \in 0..(d - 1) : ~P(j - e))

\* The characters of s at the positions that satisfy Keep, in order.
Filter(s, Keep(_)) ==
    LET kept == SelectSeq([i \in 1..Len(s) |-> i], Keep)
    IN  [k \in 1..Len(kept) |-> s[kept[k]]]

\* str.replace(c, d) for single characters c and d
ReplaceChar(s, c, d) == [i \in 1..Len(s) |-> IF s[i] = c THEN d ELSE s[i]]

\* str.replace(c1 c2, d) for two different characters c1, c2 (occurrences
\* cannot overlap): c1 becomes d where c2 follows it, and that c2 goes.
ReplacePair(s, c1, c2, d) ==
    LET starts(i) == s[i] = c1 /\ i < Len(s) /\ s[i + 1] = c2
        t == [i \in 1..Len(s) |-> IF starts(i) THEN d ELSE s[i]]
    IN  Filter(t, LAMBDA i : ~(i > 1 /\ starts(i - 1)))

\* First index >= i whose character is not white space (Len(s)+1 if none).
SkipSpace(s, i) ==
    IF i > Len(s) THEN i ELSE FirstFrom(i, Len(s), LAMBDA j : ~IsSpace(s[j]))

\* Last index <= j whose character is not white space (0 if none).
SkipSpaceBack(s, j) ==
    IF j < 1 THEN j ELSE LastUpTo(j, LAMBDA k : ~IsSpace(s[k]))

\* str.strip()
Strip(s) == SubSeq(s, SkipSpace(s, 1), SkipSpaceBack(s, Len(s)))

\* First index >= i whose character is not c (Len(s)+1 if none).
SkipChar(s, c, i) ==
    IF i > Len(s) THEN i ELSE FirstFrom(i, Len(s), LAMBDA j : s[j] # c)

\* str.lstrip(chars) for the one-character set {c}
LStripChar(s, c) == SubSeq(s, SkipChar(s, c, 1), Len(s))

\* First index >= i holding c (Len(s)+1 if none).
Find(s, c, i) ==
    IF i > Len(s) THEN Len(s) + 1 ELSE FirstFrom(i, Len(s), LAMBDA j : s[j] = c)

\* The pieces of s between the separators that start at the positions
\* listed in seps, each separator n characters long: always at least one
\* piece.
Pieces(s, seps, n) ==
    [k \in 1..(Len(seps) + 1) |->
        Slice(s, IF k = 1 THEN 1 ELSE seps[k - 1] + n,
                 IF k > Len(seps) THEN Len(s) + 1 ELSE seps[k])]

\* str.split(sep) for a one-character separator
Split(s, c) ==
    Pieces(s, SelectSeq([i \in 1..Len(s) |-> i], LAMBDA i : s[i] = c), 1)

\* str.split(sep) for the separator c c: in a run of c the separators are
\* taken from the left, two characters at a time.
SplitDouble(s, c) ==
    LET runStart(j) == LastUpTo(j, LAMBDA i : i = 1 \/ s[i - 1] # c)
        isSep(j) == /\ s[j] = c /\ j < Len(s) /\ s[j + 1] = c
                    /\ (j - runStart(j)) % 2 = 0
    IN  Pieces(s, SelectSeq([i \in 1..Len(s) |-> i], isSep), 2)

\* sep.join(pieces) for a separator string
RECURSIVE JoinRange(_, _, _, _)
JoinRange(pieces, sep, lo, hi) ==
    IF lo > hi THEN <<>>
    ELSE IF lo = hi THEN pieces[lo]
    ELSE LET mid == (lo + hi) \div 2
         IN  JoinRange(pieces, sep, lo, mid) \o sep
                 \o JoinRange(pieces, sep, mid + 1, hi)

Join(pieces, sep) == JoinRange(pieces, sep, 1, Len(pieces))

(***************************************************************************)
(* TextSanitizer: TAG_PATTERN = <[^>]+>|{[^}]+} and the two cleaners.      *)
(***************************************************************************)
\* End (exclusive) of the TAG_PATTERN match that starts at i, or 0 if the
\* pattern does not match at i.  [^>]+ also matches line terminators, and
\* needs at least one character before the closing bracket.
TagMatchEnd(s, i) ==
    IF i > Len(s) THEN 0
    ELSE IF s[i] = LT
         THEN LET j == Find(s, GT, i + 1)
              IN  IF j <= Len(s) /\ j >= i + 2 THEN j + 1 ELSE 0
    ELSE IF s[i] = LBRACE
         THEN LET j == Find(s, RBRACE, i + 1)
              IN  IF j <= Len(s) /\ j >= i + 2 THEN j + 1 ELSE 0
    ELSE 0

\* TAG_PATTERN.sub('', text): leftmost non-overlapping matches are removed.
\* The scan takes the first position >= i where the pattern matches and goes
\* on from the end of that match.
RECURSIVE TagSubFrom(_, _)
TagSubFrom(s, i) ==
    IF i > Len(s) THEN <<>>
    ELSE LET j == FirstFrom(i, Len(s), LAMBDA k : TagMatchEnd(s, k) > 0)
         IN  IF j > Len(s) THEN Slice(s, i, j)
             ELSE Slice(s, i, j) \o TagSubFrom(s, TagMatchEnd(s, j))

TagSub(s) == TagSubFrom(s, 1)

\* [line.strip() for line in text.split('\n') if line.strip()]
StripLines(lines) ==
    SelectSeq([k \in 1..Len(lines) |-> Strip(lines[k])], LAMBDA l : l # <<>>)

\* srt_parser.SRTParser._clean_subtitle_text
clean_subtitle_text(text) ==
    LET t1 == TagSub(text)
        t2 == Strip(t1)
    IN  Join(StripLines(Split(t2, NL)), <<NL>>)

\* app.SRTParser._clean_text
clean_text(text) ==
    Join(StripLines(Split(TagSub(text), NL)), <<NL>>)

(***************************************************************************)
(* ContentNormalizer, as written in each implementation.                   *)
(***************************************************************************)
\* srt_parser.SRTParser._clean_content: line endings, BOM, then strip.
clean_content(content) ==
    LET c1 == ReplacePair(content, CR, NL, NL)
        c2 == ReplaceChar(c1, CR, NL)
        c3 == LStripChar(c2, BOM)
    IN  Strip(c3)

\* app.SRTParser.parse, lines 155-156: line endings, strip, then BOM.
app_normalize(content) ==
    LET c1 == Strip(ReplaceChar(ReplacePair(content, CR, NL, NL), CR, NL))
    IN  LStripChar(c1, BOM)

(***************************************************************************)
(* The block grammar.  BLOCK_PATTERN (identical in both files):            *)
(*   (\d+)\s*\n                                                            *)
(*   (\d{2}:\d{2}:\d{2}[,\.]\d{3})\s*-->\s*(\d{2}:\d{2}:\d{2}[,\.]\d{3})\s*\n *)
(*   ((?:(?!\d+\s*\n\d{2}:\d{2}:\d{2}).+\n?)+)                             *)
(* matched as the backtracking engine matches it: greedy runs first, and   *)
(* the only alternatives that can succeed after a failure are the earlier  *)
(* line terminators of the white space that follows the second timestamp.  *)
(***************************************************************************)
\* First index >= i whose character is not a digit.
DigitsEnd(s, i) ==
    IF i > Len(s) THEN i ELSE FirstFrom(i, Len(s), LAMBDA j : ~IsDigit(s[j]))

\* \d{2}:\d{2}:\d{2} at i
MatchHMS(s, i) ==
    /\ i + 7 <= Len(s)
    /\ IsDigit(s[i]) /\ IsDigit(s[i + 1]) /\ s[i + 2] = COLON
    /\ IsDigit(s[i + 3]) /\ IsDigit(s[i + 4]) /\ s[i + 5] = COLON
    /\ IsDigit(s[i + 6]) /\ IsDigit(s[i + 7])

\* \d{2}:\d{2}:\d{2}[,\.]\d{3} at i
MatchStamp(s, i) ==
    /\ MatchHMS(s, i)
    /\ i + 11 <= Len(s)
    /\ s[i + 8] \in {COMMA, DOT}
    /\ IsDigit(s[i + 9]) /\ IsDigit(s[i + 10]) /\ IsDigit(s[i + 11])

NoMatch == [ok |-> FALSE]

\* TIMESTAMP_PATTERN at i: stamp \s* --> \s* stamp.  The groups and the end
\* (exclusive) of the match.
MatchPair(s, i) ==
    IF ~MatchStamp(s, i) THEN NoMatch
    ELSE LET a == SkipSpace(s, i + 12)
         IN  IF ~(a + 2 <= Len(s) /\ s[a] = DASH /\ s[a + 1] = DASH /\ s[a + 2] = GT)
             THEN NoMatch
             ELSE LET b == SkipSpace(s, a + 3)
                  IN  IF ~MatchStamp(s, b) THEN NoMatch
                      ELSE [ok |-> TRUE, g1 |-> Slice(s, i, i + 12),
                            g2 |-> Slice(s, b, b + 12), stop |-> b + 12]

\* The negative lookahead's pattern \d+\s*\n\d{2}:\d{2}:\d{2} at r.
Lookahead(s, r) ==
    LET d == DigitsEnd(s, r)
        w == SkipSpace(s, d)
    IN  d > r /\ w > d /\ s[w - 1] = NL /\ MatchHMS(s, w)

\* One iteration of (?!...).+\n? can start at r.
BodyLineAt(s, r) == r <= Len(s) /\ s[r] # NL /\ ~Lookahead(s, r)

\* End (exclusive) of the greedy body that starts at r.
RECURSIVE BodyEnd(_, _)
BodyEnd(s, r) ==
    IF BodyLineAt(s, r)
    THEN LET j == Find(s, NL, r)
         IN  BodyEnd(s, IF j <= Len(s) THEN j + 1 ELSE j)
    ELSE r

\* \s*\n after the second timestamp (which ends before e): the start of the
\* body, trying the last line terminator of the white space first; 0 if the
\* body can start after none of them.
RECURSIVE BodyStart(_, _, _)
BodyStart(s, e, q) ==
    IF q <= e THEN 0
    ELSE IF s[q - 1] = NL /\ BodyLineAt(s, q) THEN q
    ELSE BodyStart(s, e, q - 1)

\* BLOCK_PATTERN at p: the four groups and the end (exclusive) of the match.
MatchAt(s, p) ==
    LET d == DigitsEnd(s, p)
        w == SkipSpace(s, d)
    IN  IF ~(d > p /\ w > d /\ s[w - 1] = NL) THEN NoMatch
        ELSE LET pr == MatchPair(s, w)
             IN  IF ~pr.ok THEN NoMatch
                 ELSE LET q == BodyStart(s, pr.stop, SkipSpace(s, pr.stop))
                      IN  IF q = 0 THEN NoMatch
                          ELSE LET r == BodyEnd(s, q)
                               IN  [ok |-> TRUE, g0 |-> Slice(s, p, d),
                                    g1 |-> pr.g1, g2 |-> pr.g2,
                                    g3 |-> Slice(s, q, r), stop |-> r]

\* BLOCK_PATTERN matched at each position of s (it can only match at a digit).
MatchTable(s) ==
    [k \in 1..Len(s) |-> IF IsDigit(s[k]) THEN MatchAt(s, k) ELSE NoMatch]

\* BLOCK_PATTERN.findall(content): leftmost non-overlapping matches from p on.
\* The scan takes the first position >= p where the pattern matches and goes
\* on from the end of that match.  'at' is the table of the matches.
RECURSIVE FindAllFrom(_, _, _)
FindAllFrom(s, at, p) ==
    IF p > Len(s) THEN <<>>
    ELSE LET q == FirstFrom(p, Len(s), LAMBDA k : at[k].ok)
         IN  IF q > Len(s) THEN <<>>
             ELSE <<at[q]>> \o FindAllFrom(s, at, at[q].stop)

FindAll(s) == FindAllFrom(s, MatchTable(s), 1)

(***************************************************************************)
(* int()                                                                   *)
(***************************************************************************)
\* Value of a non-empty digit string.
RECURSIVE DigitsValue(_)
DigitsValue(ds) ==
    IF ds = <<>> THEN 0
    ELSE 10 * DigitsValue(SubSeq(ds, 1, Len(ds) - 1)) + DigitValue(ds[Len(ds)])

PLUS == 43
UNDERSCORE == 95

\* Digits with single underscores between them, from i to the end of s.
RECURSIVE IntBody(_, _)
IntBody(s, i) ==
    /\ i <= Len(s)
    /\ IsDigit(s[i])
    /\ \/ i = Len(s)
       \/ IntBody(s, i + 1)
       \/ i + 1 < Len(s) /\ s[i + 1] = UNDERSCORE /\ IntBody(s, i + 2)

DropChar(s, c) == SelectSeq(s, LAMBDA x : x # c)

\* The number of digits a string of digits and underscores stands for.
DigitCount(s) ==
    Cardinality({i \in 1..Len(s) : s[i] # UNDERSCORE})
        + int_max_str_digits * Cardinality({i \in 1..Len(s) : s[i] = NINES})

\* The white space int() skips around the number: that of str.strip()
\* without the separators U+001C..U+001F.
IsIntSpace(c) == IsSpace(c) /\ c \notin {28, 29, 30, 31}

IntStrip(s) ==
    SubSeq(s, FirstFrom(1, Len(s), LAMBDA i : ~IsIntSpace(s[i])),
           LastUpTo(Len(s), LAMBDA i : ~IsIntSpace(s[i])))

\* int(s) in base 10: white space around, an optional sign, digits with
\* single underscores between them, at most int_max_str_digits digits;
\* anything else is a ValueError.
IntParse(s) ==
    LET t == IntStrip(s)
        signed == t # <<>> /\ t[1] \in {PLUS, DASH}
        body == IF signed THEN Tail(t) ELSE t
    IN  IF ~IntBody(body, 1) THEN [ok |-> FALSE]
        ELSE IF DigitCount(body) > int_max_str_digits THEN [ok |-> FALSE]
        ELSE LET v == DigitsValue(DropChar(body, UNDERSCORE))
             IN  [ok |-> TRUE, val |-> IF signed /\ t[1] = DASH THEN 0 - v ELSE v]

(***************************************************************************)
(* SubtitleEntry.get_duration_seconds.  Seconds are counted in thousandths *)
(* (milliseconds): the timestamps of a record have three fraction digits,  *)
(* and round(end - start, 3) is the exact difference of the two.           *)
(***************************************************************************)
\* float(parts[2]) for 'SS.mmm', in thousandths
SecondsToMillis(s) ==
    DigitsValue(Slice(s, 1, Find(s, DOT, 1))) * 1000
        + DigitsValue(SubSeq(s, Find(s, DOT, 1) + 1, Len(s)))

\* The parts of _time_to_seconds added up (parts is time_str split at ':').
PartsToMillis(parts) ==
    IntParse(parts[1]).val * 3600000 + IntParse(parts[2]).val * 60000
        + SecondsToMillis(parts[3])

\* SubtitleEntry._time_to_seconds, in thousandths of a second
time_to_millis(time_str) ==
    PartsToMillis(Split(ReplaceChar(time_str, COMMA, DOT), COLON))

\* SubtitleEntry.get_duration_seconds, in thousandths of a second
get_duration_millis(entry) ==
    time_to_millis(entry.end_time) - time_to_millis(entry.start_time)

\* The record built with its two timestamps put in order.
Entry_TimesOrdered(index, start_time, end_time, text) ==
    [index |-> index,
     start_time |-> IF time_to_millis(end_time) < time_to_millis(start_time)
                    THEN end_time ELSE start_time,
     end_time |-> IF time_to_millis(end_time) < time_to_millis(start_time)
                  THEN start_time ELSE end_time,
     text |-> text]

(***************************************************************************)
(* The two parser tiers, in each implementation.                           *)
(***************************************************************************)
\* SubtitleEntry(index, start_time, end_time, text) and the dict of app.py
Entry(index, start_time, end_time, text) ==
    [index |-> index, start_time |-> start_time, end_time |-> end_time,
     text |-> text]

\* The records up to the first block that gives none ('break' for
\* 'continue').
Collect_UntilFailure(opts) ==
    [k \in 1..(FirstFrom(1, Len(opts), LAMBDA j : opts[j] = <<>>) - 1) |->
        opts[k][1]]

\* The records of a sequence of optional records (<<record>> or <<>>).
Collect(opts) ==
    LET some == SelectSeq(opts, LAMBDA o : o # <<>>)
    IN  [k \in 1..Len(some) |-> some[k][1]]

\* The timestamp kept as written.
NormalizeStamp_Kept(t) == t

\* timestamp.replace(',', '.')
NormalizeStamp(t) == ReplaceChar(t, COMMA, DOT)

\* srt_parser.SRTParser._regex_parse, the loop body for one match: the
\* record appended, if any.
regex_parse_one(match) ==
    LET index == IntParse(match.g0)
        start_time == NormalizeStamp(match.g1)
        end_time == NormalizeStamp(match.g2)
        text == clean_subtitle_text(match.g3)
    IN  IF index.ok /\ text # <<>>
        THEN <<Entry(index.val, start_time, end_time, text)>>
        ELSE <<>>

\* srt_parser.SRTParser._regex_parse
regex_parse(content) ==
    LET matches == FindAll(content)
    IN  Collect([k \in 1..Len(matches) |-> regex_parse_one(matches[k])])

\* app.SRTParser._regex_parse, the loop body for one match: the text is not
\* tested before the append.
app_regex_parse_one(match) ==
    LET index == IntParse(match.g0)
    IN  IF index.ok
        THEN <<Entry(index.val, NormalizeStamp(match.g1),
                     NormalizeStamp(match.g2), clean_text(match.g3))>>
        ELSE <<>>

\* app.SRTParser._regex_parse
app_regex_parse(content) ==
    LET matches == FindAll(content)
    IN  Collect([k \in 1..Len(matches) |-> app_regex_parse_one(matches[k])])

\* One candidate block of the fallback parser: <<record>> or <<>>.  The
\* cleaner is the implementation's.
block_parse_one(raw, srt) ==
    LET block == Strip(raw)
        lines == Split(block, NL)
    IN  IF block = <<>> THEN <<>>
        ELSE IF Len(lines) < 3 THEN <<>>
        ELSE LET index == IntParse(Strip(lines[1]))
             IN  IF ~index.ok THEN <<>>
                 ELSE LET time_match == MatchPair(Strip(lines[2]), 1)
                      IN  IF ~time_match.ok THEN <<>>
                          ELSE LET joined == Join(SubSeq(lines, 3, Len(lines)), <<NL>>)
                                   text == IF srt THEN clean_subtitle_text(joined)
                                           ELSE clean_text(joined)
                               IN  IF text = <<>> THEN <<>>
                                   ELSE <<Entry(index.val,
                                                NormalizeStamp(time_match.g1),
                                                NormalizeStamp(time_match.g2),
                                                text)>>

\* srt_parser.SRTParser._block_parse
block_parse(content) ==
    LET raws == SplitDouble(content, NL)
    IN  Collect([k \in 1..Len(raws) |-> block_parse_one(raws[k], TRUE)])

\* app.SRTParser._block_parse
app_block_parse(content) ==
    LET raws == SplitDouble(content, NL)
    IN  Collect([k \in 1..Len(raws) |-> block_parse_one(raws[k], FALSE)])

(***************************************************************************)
(* ByteDecoder: the codecs of the ENCODINGS lists, strict error handling.  *)
(* A decode result is [ok |-> TRUE, text |-> str] or [ok |-> FALSE].       *)
(***************************************************************************)
DecodeError == [ok |-> FALSE]

Decoded(text) == [ok |-> TRUE, text |-> text]

IsCont(b, i) == i <= Len(b) /\ b[i] >= 128 /\ b[i] <= 191

\* One UTF-8 sequence at i: [n |-> its length, cp |-> its code point], n = 0
\* when the bytes at i are not a valid sequence (overlong forms, surrogates
\* and code points above U+10FFFF are invalid).
Utf8Step(b, i) ==
    LET c == b[i]
    IN  IF c < 128 THEN [n |-> 1, cp |-> c]
        ELSE IF c >= 194 /\ c <= 223
             THEN IF IsCont(b, i + 1)
                  THEN [n |-> 2, cp |-> (c - 192) * 64 + (b[i + 1] - 128)]
                  ELSE [n |-> 0, cp |-> 0]
        ELSE IF c >= 224 /\ c <= 239
             THEN IF /\ IsCont(b, i + 1) /\ IsCont(b, i + 2)
                     /\ (c = 224 => b[i + 1] >= 160)
                     /\ (c = 237 => b[i + 1] <= 159)
                  THEN [n |-> 3, cp |-> (c - 224) * 4096 + (b[i + 1] - 128) * 64
                                        + (b[i + 2] - 128)]
                  ELSE [n |-> 0, cp |-> 0]
        ELSE IF c >= 240 /\ c <= 244
             THEN IF /\ IsCont(b, i + 1) /\ IsCont(b, i + 2) /\ IsCont(b, i + 3)
                     /\ (c = 240 => b[i + 1] >= 144)
                     /\ (c = 244 => b[i + 1] <= 143)
                  THEN [n |-> 4, cp |-> (c - 240) * 262144 + (b[i + 1] - 128) * 4096
                                        + (b[i + 2] - 128) * 64 + (b[i + 3] - 128)]
                  ELSE [n |-> 0, cp |-> 0]
        ELSE [n |-> 0, cp |-> 0]

\* The bytes from i on as UTF-8.  In valid UTF-8 the sequences start exactly
\* at the bytes that are not continuation bytes (80..BF): each such byte must
\* start a valid sequence, and every continuation byte must lie inside one.
Utf8From(b, i) ==
    LET lead(j) == ~(b[j] >= 128 /\ b[j] <= 191)
        covered(j) == \E k \in 1..3 :
                          j - k >= i /\ lead(j - k) /\ Utf8Step(b, j - k).n > k
        valid == \A j \in i..Len(b) :
                     IF lead(j) THEN Utf8Step(b, j).n > 0 ELSE covered(j)
        leads == SelectSeq([j \in 1..Len(b) |-> j], LAMBDA j : j >= i /\ lead(j))
    IN  IF valid THEN Decoded([k \in 1..Len(leads) |-> Utf8Step(b, leads[k]).cp])
        ELSE DecodeError

\* bytes.decode('utf-8')
DecodeUtf8(b) == Utf8From(b, 1)

\* bytes.decode('utf-8-sig'): one leading EF BB BF is dropped
DecodeUtf8Sig(b) ==
    IF Len(b) >= 3 /\ b[1] = 239 /\ b[2] = 187 /\ b[3] = 191
    THEN Utf8From(b, 4)
    ELSE Utf8From(b, 1)

\* latin-1 taken for a codec that decodes the bytes below 128 only.
DecodeLatin1_AsciiOnly(b) ==
    IF \A i \in 1..Len(b) : b[i] < 128 THEN Decoded(b) ELSE DecodeError

\* bytes.decode('latin-1'), and its alias 'iso-8859-1': every byte is the
\* code point of its value.
DecodeLatin1(b) == Decoded(b)

\* cp1252: the code points of the bytes 0x80..0x9F (0 where undefined).
Cp1252High ==
    <<8364, 0, 8218, 402, 8222, 8230, 8224, 8225, 710, 8240, 352, 8249, 338,
      0, 381, 0, 0, 8216, 8217, 8220, 8221, 8226, 8211, 8212, 732, 8482, 353,
      8250, 339, 0, 382, 376>>

Cp1252Char(c) == IF c >= 128 /\ c <= 159 THEN Cp1252High[c - 127] ELSE c

Cp1252From(b, i) ==
    IF \A j \in i..Len(b) : Cp1252Char(b[j]) # 0 \/ b[j] = 0
    THEN Decoded([k \in 1..(Len(b) - i + 1) |-> Cp1252Char(b[k + i - 1])])
    ELSE DecodeError

\* bytes.decode('cp1252')
DecodeCp1252(b) == Cp1252From(b, 1)

\* bytes.decode('ascii')
DecodeAscii(b) ==
    IF \A i \in 1..Len(b) : b[i] < 128 THEN Decoded(b) ELSE DecodeError

\* UTF-16 code units from byte i on, little endian or big endian: an odd
\* number of bytes is an error, a high surrogate needs a low surrogate after
\* it and a low surrogate a high one before it.
Utf16From(b, i, le) ==
    LET n == (Len(b) - i + 1) \div 2
        unit(k) == IF le THEN b[i + 2 * k - 2] + 256 * b[i + 2 * k - 1]
                   ELSE 256 * b[i + 2 * k - 2] + b[i + 2 * k - 1]
        high(k) == unit(k) >= 55296 /\ unit(k) <= 56319
        low(k) == unit(k) >= 56320 /\ unit(k) <= 57343
        valid == /\ (Len(b) - i + 1) % 2 = 0
                 /\ \A k \in 1..n :
                        /\ high(k) => (k < n /\ low(k + 1))
                        /\ low(k) => (k > 1 /\ high(k - 1))
        firsts == SelectSeq([k \in 1..n |-> k], LAMBDA k : ~low(k))
    IN  IF ~valid THEN DecodeError
        ELSE Decoded([m \in 1..Len(firsts) |->
                 LET k == firsts[m]
                 IN  IF high(k)
                     THEN 65536 + (unit(k) - 55296) * 1024 + (unit(k + 1) - 56320)
                     ELSE unit(k)])

\* bytes.decode('utf-16'): a byte-order mark selects the order and is dropped;
\* without one the order is the machine's, little endian.
DecodeUtf16(b) ==
    IF Len(b) >= 2 /\ b[1] = 255 /\ b[2] = 254 THEN Utf16From(b, 3, TRUE)
    ELSE IF Len(b) >= 2 /\ b[1] = 254 /\ b[2] = 255 THEN Utf16From(b, 3, FALSE)
    ELSE Utf16From(b, 1, TRUE)

\* bytes.decode(encoding)
DecodeWith(encoding, b) ==
    CASE encoding = "utf-8-sig" -> DecodeUtf8Sig(b)
      [] encoding = "utf-8" -> DecodeUtf8(b)
      [] encoding = "latin-1" -> DecodeLatin1(b)
      [] encoding = "cp1252" -> DecodeCp1252(b)
      [] encoding = "iso-8859-1" -> DecodeLatin1(b)
      [] encoding = "ascii" -> DecodeAscii(b)
      [] encoding = "utf-16" -> DecodeUtf16(b)
      [] encoding = "utf-16-le" -> Utf16From(b, 1, TRUE)
      [] encoding = "utf-16-be" -> Utf16From(b, 1, FALSE)

\* srt_parser.SRTParser.ENCODINGS
ENCODINGS ==
    <<"utf-8-sig", "utf-8", "latin-1", "cp1252", "iso-8859-1", "ascii",
      "utf-16", "utf-16-le", "utf-16-be">>

\* app.SRTParser.ENCODINGS
APP_ENCODINGS == <<"utf-8-sig", "utf-8", "latin-1", "cp1252", "iso-8859-1">>

\* open(path, 'r', encoding=...).read(): text mode with universal newlines,
\* so '\r\n' and '\r' arrive as '\n'.
UniversalNewlines(text) == ReplaceChar(ReplacePair(text, CR, NL, NL), CR, NL)

\* The codec's incremental decoder, which a file opened in text mode reads
\* through, on the whole file.  It decodes as decode()
\* does, except for utf-8-sig on a file that is a proper prefix of the
\* byte-order mark (EF, or EF BB): the decoder waits for more bytes and the
\* read returns the empty string; and for utf-16 on a file of two bytes or
\* more that does not start with a byte-order mark, which is an error.
IncrementalDecode(encoding, b) ==
    IF /\ encoding = "utf-8-sig"
       /\ Len(b) < 3
       /\ b = SubSeq(<<239, 187, 191>>, 1, Len(b))
    THEN Decoded(<<>>)
    ELSE IF /\ encoding = "utf-16"
            /\ Len(b) >= 2
            /\ <<b[1], b[2]>> \notin {<<255, 254>>, <<254, 255>>}
    THEN DecodeError
    ELSE DecodeWith(encoding, b)

\* open(path, 'r', encoding=encoding).read(): the decoded text with the
\* newlines translated, or the UnicodeError of the decoder
ReadWith(encoding, b) ==
    IF IncrementalDecode(encoding, b).ok
    THEN Decoded(UniversalNewlines(IncrementalDecode(encoding, b).text))
    ELSE DecodeError

\* The loop leaving at the first encoding that fails ('break' for 'continue').
TryEncodings_Break(encodings, b, k, file) ==
    LET r == IF file THEN ReadWith(encodings[k], b) ELSE DecodeWith(encodings[k], b)
    IN  IF r.ok
        THEN [ok |-> TRUE, text |-> r.text, tried |-> SubSeq(encodings, 1, k)]
        ELSE [ok |-> FALSE, tried |-> SubSeq(encodings, 1, k)]

\* The loop of _read_file (file true) / _decode (file false) over the
\* encodings from k on: the first encoding that decodes wins, a failing one
\* is skipped ('continue').  'tried' lists the encodings attempted.
RECURSIVE TryEncodings(_, _, _, _)
TryEncodings(encodings, b, k, file) ==
    IF k > Len(encodings) THEN [ok |-> FALSE, tried |-> encodings]
    ELSE LET r == IF file THEN ReadWith(encodings[k], b)
                  ELSE DecodeWith(encodings[k], b)
         IN  IF r.ok
             THEN [ok |-> TRUE, text |-> r.text, tried |-> SubSeq(encodings, 1, k)]
             ELSE TryEncodings(encodings, b, k + 1, file)

\* srt_parser.SRTParser._read_file on a file holding the bytes b: the text, or
\* the ValueError that names the encodings tried.
read_file(b) ==
    LET r == TryEncodings(ENCODINGS, b, 1, TRUE)
    IN  IF r.ok
        THEN [ok |-> TRUE, text |-> r.text, tried |-> r.tried]
        ELSE [ok |-> FALSE, error |-> "ValueError", tried |-> r.tried]

\* bytes.decode('latin-1', errors='replace')
DecodeLatin1Replace(b) == Decoded(b)

\* app.SRTParser._decode: never fails
decode(b) ==
    LET r == TryEncodings(APP_ENCODINGS, b, 1, FALSE)
    IN  IF r.ok THEN [ok |-> TRUE, text |-> r.text, tried |-> r.tried]
        ELSE [ok |-> TRUE, text |-> DecodeLatin1Replace(b).text,
              tried |-> r.tried \o <<"latin-1/replace">>]

(***************************************************************************)
(* State.                                                                  *)
(*   impl        which implementation runs: "srt_parser" (parse_file) or   *)
(*               "app" (parse)                                             *)
(*   pc          the position in parse_file / parse, or in the caller that *)
(*               applies a pure function once and then to its own result   *)
(*   bytes       the byte buffer: the file's content, or content_bytes     *)
(*   blocks      the blocks the input was written from (<<>> for a raw     *)
(*               byte buffer); read by the properties only                 *)
(*   content     the local variable content                                *)
(*   tried       the encodings attempted by the decoding loop              *)
(*   regexOut    what _regex_parse returned                                *)
(*   subtitles   the local variable subtitles; the return value at "done"  *)
(*   fallbackRan whether _block_parse was called                           *)
(*   once, twice results of the first and of the second application        *)
(*   batch       a batch loop of converter.py / app.py: its files, position *)
(*               and counters                                              *)
(*   inst        a parser instance shared by several parse_file calls: its *)
(*               field errors and the calls' local variables               *)
(*   writer      a DOCXWriter: its field doc, and the files it has saved   *)
(***************************************************************************)
VARIABLES impl, pc, bytes, blocks, content, tried, regexOut, subtitles,
          fallbackRan, once, twice, batch, inst, writer

vars == <<impl, pc, bytes, blocks, content, tried, regexOut, subtitles,
          fallbackRan, once, twice, batch, inst, writer>>

\* The state of the callers: the batch loops, a shared parser instance and
\* the document writer.
callers == <<batch, inst, writer>>

Impls == {"srt_parser", "app"}

(***************************************************************************)
(* Inputs.  A block is written from a kind and its position i in the file: *)
(* index line, timestamp line, text lines.  'clean' is the text the block  *)
(* carries once its markup is taken out, written by hand.                  *)
(***************************************************************************)
MaxBlocks == 3
MaxBytes == 3
MaxText == 5

Digit(n) == 48 + n

TwoDigits(n) == <<Digit(n \div 10), Digit(n % 10)>>

ThreeDigits(n) == <<Digit(n \div 100), Digit((n \div 10) % 10), Digit(n % 10)>>

\* HH:MM:SS<sep>mmm
Stamp(h, m, sec, sep, ms) ==
    TwoDigits(h) \o <<COLON>> \o TwoDigits(m) \o <<COLON>> \o TwoDigits(sec)
        \o <<sep>> \o ThreeDigits(ms)

\* ' --> '
Arrow == <<32, DASH, DASH, GT, 32>>

Hello == <<72, 101, 108, 108, 111>>
Bad == <<98, 97, 100>>
\* <i>Hi</i>
TaggedHi == <<LT, 105, GT, 72, 105, LT, 47, 105, GT>>
\* {\an8}you followed by a space
StyledYou == <<LBRACE, 92, 97, 110, 56, RBRACE, 121, 111, 117, 32>>
Hi == <<72, 105>>
You == <<121, 111, 117>>
\* <i></i>
EmptyTag == <<LT, 105, GT, LT, 47, 105, GT>>
Five == <<53>>
Seven == <<55>>
World == <<87, 111, 114, 108, 100>>
\* 00:00:09 left
TimeLike == <<48, 48, COLON, 48, 48, COLON, 48, 57, 32, 108, 101, 102, 116>>
\* X1:0 (a position hint after the timestamps)
Coords == <<32, 88, 49, COLON, 48>>

Kinds == {"plain", "dot", "markup", "digits", "tagonly", "x2", "abc", "zero",
          "trail"}

Block(kind, i) ==
    [kind |-> kind,
     num |-> IF kind = "zero" THEN 0 ELSE i,
     idx |-> CASE kind = "x2" -> <<120, Digit(i)>>
               [] kind = "huge" -> <<NINES>>
               [] kind = "abc" -> <<97, 98, 99>>
               [] kind = "zero" -> <<Digit(0)>>
               [] OTHER -> <<Digit(i)>>,
     sep |-> IF kind = "dot" THEN DOT ELSE COMMA,
     sec |-> i,
     trail |-> IF kind = "trail" THEN Coords ELSE <<>>,
     body |-> CASE kind = "markup" -> <<TaggedHi, StyledYou>>
                [] kind = "digits" -> <<Five, TimeLike>>
                [] kind = "gap" -> <<Hello, <<>>, World>>
                [] kind = "numline" -> <<Hello, Seven>>
                [] kind = "timelike" -> <<Hello, Five, TimeLike>>
                [] kind = "tagonly" -> <<EmptyTag>>
                [] kind \in {"x2", "abc"} -> <<Bad>>
                [] OTHER -> <<Hello>>,
     clean |-> CASE kind = "markup" -> <<Hi, You>>
                 [] kind = "digits" -> <<Five, TimeLike>>
                 [] kind = "gap" -> <<Hello, World>>
                 [] kind = "numline" -> <<Hello, Seven>>
                 [] kind = "timelike" -> <<Hello, Five, TimeLike>>
                 [] kind = "tagonly" -> <<>>
                 [] kind \in {"x2", "abc"} -> <<Bad>>
                 [] OTHER -> <<Hello>>]

RenderBlock(b) ==
    b.idx \o <<NL>> \o Stamp(0, 0, b.sec, b.sep, 0) \o Arrow
        \o Stamp(0, 0, b.sec, b.sep, 500) \o b.trail \o <<NL>>
        \o Join(b.body, <<NL>>)

\* The blocks separated by one blank line, the file ending with a line
\* terminator.
Render(bs) ==
    Join([i \in 1..Len(bs) |-> RenderBlock(bs[i])], <<NL, NL>>) \o <<NL>>

BlockLists ==
    UNION {[1..n -> Kinds] : n \in 1..MaxBlocks}

BlocksOf(ks) == [i \in 1..Len(ks) |-> Block(ks[i], i)]

\* Raw byte buffers: ASCII, the UTF-8 form of U+00E9 (C3 A9), the UTF-8
\* byte-order mark (EF BB BF), and bytes no UTF-8 text holds (FF, 81).
ByteAlphabet == {65, 10, 195, 169, 239, 187, 191, 255, 129}

ByteBuffers == UNION {[1..n -> ByteAlphabet] : n \in 0..MaxBytes}

\* Text fragments for the sanitizer
TagAlphabet == {LT, GT, LBRACE, RBRACE, 97, 32, NL}

TagTexts == UNION {[1..n -> TagAlphabet] : n \in 0..MaxText}

\* Decoded strings for the normalizer
NormAlphabet == {BOM, 32, CR, NL, 97}

NormTexts == UNION {[1..n -> NormAlphabet] : n \in 0..MaxText}

(***************************************************************************)
(* parse_file (srt_parser.py) and parse (app.py), statement by statement.  *)
(* The file given to parse_file exists and is named *.srt.                 *)
(***************************************************************************)
IdleParser ==
    /\ tried = <<>> /\ regexOut = <<>> /\ subtitles = <<>>
    /\ fallbackRan = FALSE /\ once = <<>> /\ twice = <<>>

Idle == IdleParser /\ batch = <<>> /\ inst = <<>> /\ writer = <<>>

Init ==
    /\ impl \in Impls
    /\ pc = "start"
    /\ \/ \E ks \in BlockLists :
             /\ blocks = BlocksOf(ks)
             /\ bytes = Render(BlocksOf(ks))
       \/ /\ blocks = <<>>
          /\ bytes \in ByteBuffers
    /\ content = <<>>
    /\ Idle

\* srt_parser.py line 113: content = self._read_file(file_path)
ReadFile ==
    /\ pc = "start" /\ impl = "srt_parser"
    /\ \E r \in {read_file(bytes)} :
           /\ tried' = r.tried
           /\ IF r.ok
              THEN content' = r.text /\ pc' = "read"
              ELSE content' = content /\ pc' = "raised"
    /\ UNCHANGED <<impl, bytes, blocks, regexOut, subtitles, fallbackRan,
                   once, twice>>
    /\ UNCHANGED callers

\* app.py line 154: content = cls._decode(content_bytes)
Decode ==
    /\ pc = "start" /\ impl = "app"
    /\ \E r \in {decode(bytes)} :
           /\ tried' = r.tried
           /\ content' = r.text
           /\ pc' = "read"
    /\ UNCHANGED <<impl, bytes, blocks, regexOut, subtitles, fallbackRan,
                   once, twice>>
    /\ UNCHANGED callers

\* srt_parser.py line 114 / app.py lines 155-156
CleanContent ==
    /\ pc = "read"
    /\ content' = IF impl = "srt_parser" THEN clean_content(content)
                  ELSE app_normalize(content)
    /\ pc' = "cleaned"
    /\ UNCHANGED <<impl, bytes, blocks, tried, regexOut, subtitles,
                   fallbackRan, once, twice>>
    /\ UNCHANGED callers

\* srt_parser.py line 117 / app.py line 158
RegexParse ==
    /\ pc = "cleaned"
    /\ regexOut' = IF impl = "srt_parser" THEN regex_parse(content)
                   ELSE app_regex_parse(content)
    /\ subtitles' = regexOut'
    /\ pc' = "regex_done"
    /\ UNCHANGED <<impl, bytes, blocks, content, tried, fallbackRan, once,
                   twice>>
    /\ UNCHANGED callers

\* The fallback called whatever the pattern-based parser returned.
NeedsFallback_Always(subs) == TRUE

\* The fallback never called.
NeedsFallback_Never(subs) == FALSE

\* 'if not subtitles:' of srt_parser.py line 120 / app.py line 159
NeedsFallback(subs) == subs = <<>>

\* srt_parser.py lines 120-123 / app.py lines 159-162, the branch taken
BlockParse ==
    /\ pc = "regex_done"
    /\ NeedsFallback(subtitles)
    /\ subtitles' = IF impl = "srt_parser" THEN block_parse(content)
                    ELSE app_block_parse(content)
    /\ fallbackRan' = TRUE
    /\ pc' = "done"
    /\ UNCHANGED <<impl, bytes, blocks, content, tried, regexOut, once,
                   twice>>
    /\ UNCHANGED callers

\* srt_parser.py lines 120-123 / app.py lines 159-162, the branch skipped
Return ==
    /\ pc = "regex_done"
    /\ ~NeedsFallback(subtitles)
    /\ pc' = "done"
    /\ UNCHANGED <<impl, bytes, blocks, content, tried, regexOut, subtitles,
                   fallbackRan, once, twice>>
    /\ UNCHANGED callers

Next == ReadFile \/ Decode \/ CleanContent \/ RegexParse \/ BlockParse \/ Return

Spec == Init /\ [][Next]_vars

(***************************************************************************)
(* The sanitizer applied to a text fragment, then to its own result.       *)
(***************************************************************************)
\* The sanitizer with its steps in the other order: the lines are trimmed
\* and the empty ones dropped first, the markup is removed last.
Sanitize_MarkupLast(t) == TagSub(Join(StripLines(Split(Strip(t), NL)), <<NL>>))

Sanitize(t) == IF impl = "srt_parser" THEN clean_subtitle_text(t) ELSE clean_text(t)

InitSanitize ==
    /\ impl \in Impls
    /\ pc = "start"
    /\ blocks = <<>> /\ bytes = <<>>
    /\ content \in TagTexts
    /\ Idle

SanitizeOnce ==
    /\ pc = "start"
    /\ once' = Sanitize(content)
    /\ pc' = "once"
    /\ UNCHANGED <<impl, bytes, blocks, content, tried, regexOut, subtitles,
                   fallbackRan, twice>>
    /\ UNCHANGED callers

SanitizeTwice ==
    /\ pc = "once"
    /\ twice' = Sanitize(once)
    /\ pc' = "twice"
    /\ UNCHANGED <<impl, bytes, blocks, content, tried, regexOut, subtitles,
                   fallbackRan, once>>
    /\ UNCHANGED callers

NextSanitize == SanitizeOnce \/ SanitizeTwice

SpecSanitize == InitSanitize /\ [][NextSanitize]_vars

(***************************************************************************)
(* The normalizer applied to a decoded string, then to its own result.     *)
(***************************************************************************)
Normalize(t) == IF impl = "srt_parser" THEN clean_content(t) ELSE app_normalize(t)

InitNormalize ==
    /\ impl \in Impls
    /\ pc = "start"
    /\ blocks = <<>> /\ bytes = <<>>
    /\ content \in NormTexts
    /\ Idle

NormalizeOnce ==
    /\ pc = "start"
    /\ once' = Normalize(content)
    /\ pc' = "once"
    /\ UNCHANGED <<impl, bytes, blocks, content, tried, regexOut, subtitles,
                   fallbackRan, twice>>
    /\ UNCHANGED callers

NormalizeTwice ==
    /\ pc = "once"
    /\ twice' = Normalize(once)
    /\ pc' = "twice"
    /\ UNCHANGED <<impl, bytes, blocks, content, tried, regexOut, subtitles,
                   fallbackRan, once>>
    /\ UNCHANGED callers

NextNormalize == NormalizeOnce \/ NormalizeTwice

SpecNormalize == InitNormalize /\ [][NextNormalize]_vars

(***************************************************************************)
(* Properties.                                                             *)
(***************************************************************************)
Returned == pc = "done"

Records == {subtitles[i] : i \in 1..Len(subtitles)}

KindsIn(S) == blocks # <<>> /\ \A i \in 1..Len(blocks) : blocks[i].kind \in S

\* The record a block stands for: its index, its timestamps with a period,
\* its text without markup.
ExpectedRecord(b) ==
    Entry(b.num, Stamp(0, 0, b.sec, DOT, 0), Stamp(0, 0, b.sec, DOT, 500),
          Join(b.clean, <<NL>>))

ExpectedOf(bs) == [i \in 1..Len(bs) |-> ExpectedRecord(bs[i])]

\* Blocks in canonical SRT form: an integer index, comma timestamps, text
\* lines that are not empty and keep some text without their markup.
CanonicalKinds == {"plain", "markup", "digits"}

\* C1: a file of N canonical blocks with increasing indices parses to exactly
\* N records in order, record i carrying block i's index, timestamps with a
\* period and text without markup, whatever the text lines look like.
C1_RoundTrip ==
    (Returned /\ KindsIn(CanonicalKinds)) => subtitles = ExpectedOf(blocks)

\* C2: no record returned by parse has an empty text, in either
\* implementation and in either parser tier.
C2_NoEmptyText ==
    Returned => \A r \in Records : r.text # <<>>

ValidKinds == {"plain", "dot", "markup"}

MalformedIndexKinds == {"x2", "abc"}

\* One block with a non-integer index line between valid blocks.
OneMalformedBetween ==
    /\ Len(blocks) >= 3
    /\ \E j \in 2..(Len(blocks) - 1) :
           /\ blocks[j].kind \in MalformedIndexKinds
           /\ \A i \in (1..Len(blocks)) \ {j} : blocks[i].kind \in ValidKinds

\* C3: with one block whose index line is not an integer between valid
\* blocks, parse returns exactly the records of the valid blocks, in order.
C3_MalformedIsolated ==
    (Returned /\ OneMalformedBetween) =>
        subtitles = ExpectedOf(SelectSeq(blocks, LAMBDA b : b.kind \in ValidKinds))

\* Some line of the text is empty or holds white space only.
HasBlankLine(t) ==
    \E k \in 1..Len(Split(t, NL)) : \A c \in 1..Len(Split(t, NL)[k]) :
        IsSpace(Split(t, NL)[k][c])

\* The text holds a markup tag: an opening bracket, at least one character
\* that is not the closing bracket, the closing bracket.
HasTag(t) ==
    \E i, j \in 1..Len(t) :
        /\ i + 1 < j
        /\ \/ t[i] = LT /\ t[j] = GT /\ \A k \in (i + 1)..(j - 1) : t[k] # GT
           \/ t[i] = LBRACE /\ t[j] = RBRACE
                  /\ \A k \in (i + 1)..(j - 1) : t[k] # RBRACE

\* C4: the text of every record returned by parse has no empty or
\* white-space-only line and no markup tag left.
C4_TextInvariant ==
    Returned => \A r \in Records : ~HasBlankLine(r.text) /\ ~HasTag(r.text)

\* HH:MM:SS.mmm
IsCanonicalStamp(t) ==
    /\ Len(t) = 12
    /\ \A i \in {1, 2, 4, 5, 7, 8, 10, 11, 12} : IsDigit(t[i])
    /\ t[3] = COLON /\ t[6] = COLON /\ t[9] = DOT

AllRecords == Records \cup {regexOut[i] : i \in 1..Len(regexOut)}

\* C5: the timestamps of every record of either parser tier have the form
\* DD:DD:DD.DDD with a period; a block written with ',' and the same block
\* written with '.' give the same timestamps: a record's timestamps are those
\* of its block written with a period, whichever separator the block uses.
C5_CanonicalStamps ==
    /\ \A r \in AllRecords :
           IsCanonicalStamp(r.start_time) /\ IsCanonicalStamp(r.end_time)
    /\ (Returned /\ blocks # <<>>) =>
           \A r \in Records : \E i \in 1..Len(blocks) :
               /\ r.start_time = Stamp(0, 0, blocks[i].sec, DOT, 0)
               /\ r.end_time = Stamp(0, 0, blocks[i].sec, DOT, 500)
    /\ (Returned /\ KindsIn({"plain", "dot"})) =>
           /\ Len(subtitles) = Len(blocks)
           /\ \A i \in 1..Len(blocks) :
                  /\ subtitles[i].start_time = Stamp(0, 0, i, DOT, 0)
                  /\ subtitles[i].end_time = Stamp(0, 0, i, DOT, 500)

\* A comma block and a period block parsed by the pattern-based parser, one
\* record each.
C5_Witness ==
    /\ Returned /\ ~fallbackRan /\ KindsIn({"plain", "dot"})
    /\ \E i, j \in 1..Len(blocks) :
           blocks[i].kind = "plain" /\ blocks[j].kind = "dot"
    /\ Len(subtitles) = Len(blocks)

\* The index line is an integer: ASCII digits only.
IsIntegerLine(l) == l # <<>> /\ \A i \in 1..Len(l) : l[i] >= 48 /\ l[i] <= 57

\* C6: the index of every record returned by parse is a positive integer and
\* is the integer declared on the index line of its block.
C6_IndexInvariant ==
    (Returned /\ blocks # <<>>) =>
        \A r \in Records :
            /\ r.index >= 1
            /\ \E i \in 1..Len(blocks) :
                   /\ IsIntegerLine(blocks[i].idx)
                   /\ r.index = blocks[i].num
                   /\ r.start_time = Stamp(0, 0, blocks[i].sec, DOT, 0)

\* C7: the fallback parser runs if and only if the pattern-based parser
\* returned no record; when it returned some, they are the result of parse.
C7_TwoTierGating ==
    /\ fallbackRan => regexOut = <<>>
    /\ Returned => (fallbackRan <=> regexOut = <<>>)
    /\ (Returned /\ regexOut # <<>>) => subtitles = regexOut

\* parse returned the records of the pattern-based parser for a file that
\* also holds a block only the fallback parser accepts.
C7_Witness ==
    /\ Returned /\ ~fallbackRan /\ regexOut # <<>>
    /\ \E i \in 1..Len(blocks) : blocks[i].kind = "trail"

\* Every candidate encoding of the strict reader fails on the buffer.
AllEncodingsFail(b) == \A k \in 1..Len(ENCODINGS) : ~ReadWith(ENCODINGS[k], b).ok

\* The text holds no timestamp arrow '-->', so no block of it can parse.
NoArrow(t) ==
    ~\E i \in 1..(Len(t) - 2) : t[i] = DASH /\ t[i + 1] = DASH /\ t[i + 2] = GT

\* C8: the lenient parser never raises; the strict reader raises a ValueError
\* naming every attempted encoding exactly when all candidate encodings
\* failed; unparseable text gives an empty sequence, not an error.
C8_TotalParse ==
    /\ impl = "app" => pc # "raised"
    /\ pc = "raised" => (AllEncodingsFail(bytes) /\ tried = ENCODINGS)
    /\ (impl = "srt_parser" /\ pc # "start" /\ AllEncodingsFail(bytes)) =>
           pc = "raised"
    /\ (pc \in {"regex_done", "done"} /\ NoArrow(content)) => subtitles = <<>>

\* The lenient parser returned the empty sequence for a buffer that is not
\* UTF-8.
C8_Witness ==
    /\ Returned /\ impl = "app" /\ blocks = <<>>
    /\ ~DecodeUtf8(bytes).ok
    /\ subtitles = <<>>

\* C9: sanitizing sanitized text gives the same text, in both implementations.
C9_SanitizeIdempotent ==
    /\ pc = "twice" => twice = once
    /\ pc = "once" => TagSub(once) = once

\* A tag was removed between two pieces of text that stay, and brackets stay.
C9_Witness ==
    /\ pc = "twice"
    /\ Len(once) < Len(content)
    /\ \E i \in 1..Len(once) : once[i] \in {LT, LBRACE}
    /\ \E i \in 1..Len(once) : once[i] \in {GT, RBRACE}

\* C10: normalizing a normalized string gives the same string, in both
\* implementations, also with white space and a byte-order mark at the start
\* in either order.
C10_NormalizeIdempotent == pc = "twice" => twice = once

(***************************************************************************)
(* parse_file and parse as functions of their input.                       *)
(***************************************************************************)
\* 'if not subtitles: subtitles = self._block_parse(content)' for the result
\* subs of the pattern-based parser (srt: srt_parser.py, otherwise app.py).
WithFallback(subs, text, srt) ==
    IF NeedsFallback(subs)
    THEN IF srt THEN block_parse(text) ELSE app_block_parse(text)
    ELSE subs

\* srt_parser.py lines 114-123 on the text that was read
parse_text(text) ==
    WithFallback(regex_parse(clean_content(text)), clean_content(text), TRUE)

\* app.py lines 155-162 on the decoded text
app_parse_text(text) ==
    WithFallback(app_regex_parse(app_normalize(text)), app_normalize(text),
                 FALSE)

\* What a call returns or raises.
Returns(subs) == [raised |-> "", subtitles |-> subs]

Raises(exception) == [raised |-> exception, subtitles |-> <<>>]

\* The result of parse_file once the file was read (r is _read_file's).
ParsedFrom(r) ==
    IF r.ok THEN Returns(parse_text(r.text)) ELSE Raises("ValueError")

\* srt_parser.SRTParser.parse_file on a file f = [exists, srt, readable,
\* data]: exists is os.path.exists, srt says that the name ends in '.srt',
\* readable that open() succeeds (it raises PermissionError otherwise).
parse_file(f) ==
    IF ~f.exists THEN Raises("FileNotFoundError")
    ELSE IF ~f.srt THEN Raises("ValueError")
    ELSE IF ~f.readable THEN Raises("PermissionError")
    ELSE ParsedFrom(read_file(f.data))

\* app.SRTParser.parse: never raises
parse(content_bytes) == Returns(app_parse_text(decode(content_bytes).text))

(***************************************************************************)
(* The batch loops: SRTtoDocxApp._convert_files (GUI) and run_cli of       *)
(* converter.py, and the upload loop of app.py.  A file of a batch is      *)
(* [kind, exists, srt, readable, data, saves]; saves says that writing the *)
(* document succeeds (PermissionError otherwise).                          *)
(***************************************************************************)
MaxFiles == 3

\* One well-formed block
GoodData == Render(<<Block("plain", 1)>>)

\* The letter A: no block at all
NoBlockData == <<65>>

BatchFile(kind) ==
    [kind |-> kind,
     exists |-> kind # "missing",
     srt |-> TRUE,
     readable |-> kind # "unreadable",
     data |-> IF kind = "nosubs" THEN NoBlockData ELSE GoodData,
     saves |-> kind # "locked"]

\* The files a folder scan can hand to the GUI and the CLI, and the uploads
\* (held in memory) of the web page.
FileKinds(frontend) ==
    IF frontend = "web" THEN {"good", "nosubs", "locked"}
    ELSE {"good", "nosubs", "missing", "unreadable", "locked"}

Frontends == {"gui", "cli", "web"}

FileLists(frontend) ==
    UNION {[1..n -> {BatchFile(k) : k \in FileKinds(frontend)}] : n \in 1..MaxFiles}

\* What one pass of the loop body does with a file, r being what the parser
\* returned or raised: "ok", "empty" (the 'continue' branch) or the exception
\* that reaches the handlers.
Outcome(f, r) ==
    IF r.raised # "" THEN r.raised
    ELSE IF r.subtitles = <<>> THEN "empty"
    ELSE IF ~f.saves THEN "PermissionError"
    ELSE "ok"

\* converter.py lines 610-613 and 645-656: the message appended to errors
GuiError(outcome) ==
    CASE outcome = "empty" -> "No valid subtitles found in file."
      [] outcome = "FileNotFoundError" -> "File not found"
      [] outcome = "ValueError" -> "Parse error"
      [] outcome = "PermissionError" -> "Permission denied"
      [] OTHER -> "Unexpected error"

\* app.py lines 610-633: the status of the entry appended to all_stats
WebStatus(outcome) ==
    CASE outcome = "ok" -> "Success"
      [] outcome = "empty" -> "Skipped"
      [] OTHER -> "Failed"

\* 'for ... in enumerate(files)': the handlers and 'continue' go on with the
\* next file.
NextFile(i, n, outcome) == i + 1

\* 'successful += 1'
Succeeded(successful, outcome) ==
    IF outcome = "ok" THEN successful + 1 ELSE successful

\* 'failed += 1' of the 'if not subtitles' branch and of every handler
Failed(failed, outcome) == IF outcome = "ok" THEN failed ELSE failed + 1

RECURSIVE Gcd(_, _)
Gcd(a, b) == IF b = 0 THEN a ELSE Gcd(b, a % b)

\* The value of the progress bar: the float (n / d) * 100 of converter.py
\* line 659, kept as the quotient n / d in lowest terms.  The float division rounds n / d
\* to a double and the multiplication rounds once more, (1 / 3) * 100 is
\* 33.33333333333333, so the value is not an integer percentage; two values
\* are equal floats exactly when their quotients are equal.  The 0 and the
\* 100 that the handlers set are (0 / 1) * 100 and (1 / 1) * 100.
Percent(n, d) == [times100 |-> <<n \div Gcd(n, d), d \div Gcd(n, d)>>]

\* The scans of the source folder the user starts during one conversion
MaxScans == 1

\* The files of the folder the user browses to while the worker thread of
\* the GUI runs: two well-formed files b1.srt and b2.srt.
ScannedFiles == <<BatchFile("b1"), BatchFile("b2")>>

\* A call posted with root.after(0, ...)
StatusCall(i, total) == [callback |-> "_update_status", i |-> i, total |-> total]

ProgressCall(value) == [callback |-> "_update_progress", value |-> value]

CompleteCall(b) ==
    [callback |-> "_conversion_complete", successful |-> b.successful,
     failed |-> b.failed, total |-> b.total, errors |-> b.errors]

\* For each kind of file, what parse_file (GUI, CLI) and parse (web) return
\* or raise for it
Parsed ==
    [file |-> [kind \in FileKinds("gui") \cup {"b1", "b2"} |->
                  parse_file(BatchFile(kind))],
     web |-> [kind \in FileKinds("web") |-> parse(BatchFile(kind).data)]]

\* No batch yet; content holds what the parsers give for each kind of file.
\* A batch is the list the user confirmed (GUI), the files found (CLI) or
\* uploaded (web); files is that list.  In the GUI srt_files is the field
\* self.srt_files, total and list are what the worker thread read at lines
\* 594 and 599, at is the thread's position, scan the position of a
\* scan_files on the main thread, scans the number of scans started, and
\* after the calls posted to the main loop.  The CLI and the web page loop over a local list, total is its
\* length.  i counts from 1.
InitBatch ==
    /\ impl = "srt_parser"
    /\ batch = <<>>
    /\ content = Parsed
    /\ pc = "batch"
    /\ bytes = <<>> /\ blocks = <<>>
    /\ IdleParser
    /\ inst = <<>> /\ writer = <<>>

BatchUnchanged ==
    UNCHANGED <<impl, pc, bytes, blocks, content, tried, regexOut, subtitles,
                fallbackRan, once, twice, inst, writer>>

\* converter.py lines 556-561, lines 813-822 and app.py line 596: a batch
\* begins, on the list confirmed in the GUI, found by run_cli or uploaded
BatchStart ==
    /\ batch = <<>>
    /\ \E fe \in Frontends : \E fs \in FileLists(fe) :
           /\ impl' = (IF fe = "web" THEN "app" ELSE "srt_parser")
           /\ batch' = [frontend |-> fe, files |-> fs, srt_files |-> fs,
                        list |-> IF fe = "gui" THEN <<>> ELSE fs,
                        total |-> IF fe = "gui" THEN 0 ELSE Len(fs),
                        at |-> IF fe = "gui" THEN "begin" ELSE "loop",
                        scan |-> "idle", scans |-> 0, i |-> 1,
                        successful |-> 0, failed |-> 0, errors |-> <<>>,
                        attempted |-> <<>>, stats |-> <<>>, after |-> <<>>]
    /\ UNCHANGED <<pc, bytes, blocks, content, tried, regexOut, subtitles,
                   fallbackRan, once, twice, inst, writer>>

\* converter.py lines 463-464: browse_source, whose button is never
\* disabled, calls scan_files on the main thread while the worker runs; the
\* list is emptied
GuiScanStart ==
    /\ batch # <<>> /\ batch.frontend = "gui"
    /\ batch.at \in {"begin", "total", "loop", "file", "progress"}
    /\ batch.scan = "idle" /\ batch.scans < MaxScans
    /\ batch' = [batch EXCEPT !.srt_files = <<>>, !.scan = "scanning",
                              !.scans = @ + 1]
    /\ BatchUnchanged

\* converter.py line 471: self.srt_files is bound to the files found
GuiScanFind ==
    /\ batch # <<>> /\ batch.frontend = "gui" /\ batch.scan = "scanning"
    /\ batch' = [batch EXCEPT !.srt_files = ScannedFiles, !.scan = "idle"]
    /\ BatchUnchanged

\* converter.py lines 594-597: total = len(self.srt_files)
GuiTotal ==
    /\ batch # <<>> /\ batch.frontend = "gui" /\ batch.at = "begin"
    /\ batch' = [batch EXCEPT !.total = Len(batch.srt_files), !.at = "total"]
    /\ BatchUnchanged

\* converter.py line 599: enumerate(self.srt_files) takes the list the field
\* holds now
GuiLoop ==
    /\ batch # <<>> /\ batch.frontend = "gui" /\ batch.at = "total"
    /\ batch' = [batch EXCEPT !.list = batch.srt_files, !.at = "loop"]
    /\ BatchUnchanged

\* converter.py lines 599-604: the loop takes the next file and posts the
\* status call
GuiStatus ==
    /\ batch # <<>> /\ batch.frontend = "gui" /\ batch.at = "loop"
    /\ batch.i <= Len(batch.list)
    /\ batch' = [batch EXCEPT
                    !.after = @ \o <<StatusCall(batch.i, batch.total)>>,
                    !.at = "file"]
    /\ BatchUnchanged

\* converter.py lines 606-656: the try statement counts the file;
\* 'continue' (line 615) goes to the next file, every other way leads to
\* line 659.
GuiConvert ==
    /\ batch # <<>> /\ batch.frontend = "gui" /\ batch.at = "file"
    /\ \E o \in {Outcome(batch.list[batch.i],
                       content.file[batch.list[batch.i].kind])} :
           batch' = [batch EXCEPT
                        !.attempted = @ \o <<batch.list[batch.i]>>,
                        !.successful = Succeeded(@, o),
                        !.failed = Failed(@, o),
                        !.errors = IF o = "ok" THEN @
                                   ELSE @ \o <<[file |-> batch.i,
                                                message |-> GuiError(o)]>>,
                        !.at = IF o = "empty" THEN "loop" ELSE "progress",
                        !.i = IF o = "empty"
                              THEN NextFile(@, Len(batch.list), o) ELSE @]
    /\ BatchUnchanged

\* converter.py lines 659-660: the division, outside the try statement,
\* raises ZeroDivisionError when total is 0 and the thread ends; otherwise
\* the progress call is posted and the loop goes on.
GuiProgress ==
    /\ batch # <<>> /\ batch.frontend = "gui" /\ batch.at = "progress"
    /\ batch' = IF batch.total = 0
                THEN [batch EXCEPT !.at = "crashed"]
                ELSE [batch EXCEPT
                         !.after = @ \o <<ProgressCall(Percent(batch.i,
                                                               batch.total))>>,
                         !.at = "loop",
                         !.i = NextFile(@, Len(batch.list), "ok")]
    /\ BatchUnchanged

\* converter.py lines 824-849: one pass of the loop of run_cli
CliConvert ==
    /\ batch # <<>> /\ batch.frontend = "cli" /\ batch.at = "loop"
    /\ batch.i <= Len(batch.list)
    /\ \E o \in {Outcome(batch.list[batch.i],
                       content.file[batch.list[batch.i].kind])} :
           batch' = [batch EXCEPT
                        !.attempted = @ \o <<batch.list[batch.i]>>,
                        !.successful = Succeeded(@, o),
                        !.failed = Failed(@, o),
                        !.i = NextFile(@, Len(batch.list), o)]
    /\ BatchUnchanged

\* app.py lines 596-636: one pass of the upload loop
WebConvert ==
    /\ batch # <<>> /\ batch.frontend = "web" /\ batch.at = "loop"
    /\ batch.i <= Len(batch.list)
    /\ \E r \in {content.web[batch.list[batch.i].kind]} :
       \E o \in {Outcome(batch.list[batch.i], r)} :
           batch' = [batch EXCEPT
                        !.attempted = @ \o <<batch.list[batch.i]>>,
                        !.stats = @ \o <<[file |-> batch.i,
                                          status |-> WebStatus(o),
                                          count |-> IF o = "ok"
                                                    THEN Len(r.subtitles)
                                                    ELSE 0]>>,
                        !.i = NextFile(@, Len(batch.list), o)]
    /\ BatchUnchanged

\* converter.py lines 663-666 and 851-855, app.py line 638: the loop is
\* over; the GUI posts _conversion_complete(successful, failed, total,
\* errors)
BatchComplete ==
    /\ batch # <<>> /\ batch.at = "loop"
    /\ batch.i > Len(batch.list)
    /\ batch' = [batch EXCEPT
                    !.at = "done",
                    !.after = IF batch.frontend = "gui"
                              THEN @ \o <<CompleteCall(batch)>> ELSE @]
    /\ BatchUnchanged

NextBatch ==
    \/ BatchStart \/ GuiScanStart \/ GuiScanFind \/ GuiTotal \/ GuiLoop
    \/ GuiStatus \/ GuiConvert \/ GuiProgress
    \/ CliConvert \/ WebConvert \/ BatchComplete

SpecBatch == InitBatch /\ [][NextBatch]_vars

\* C11 - Batch isolation: in the three batch loops every file of the batch
\* is attempted exactly once and in list order, whatever happened to the
\* files before it (an exception, an unreadable file, an empty parse
\* result): the loop is never left by an exception, the files attempted so
\* far are always the first ones of the batch, and when the loop is over
\* they are all its files.
C11_BatchIsolation ==
    batch # <<>> =>
        /\ batch.at # "crashed"
        /\ Len(batch.attempted) <= Len(batch.files)
        /\ batch.attempted = SubSeq(batch.files, 1, Len(batch.attempted))
        /\ batch.at = "done" => Len(batch.attempted) = Len(batch.files)

\* The files of the batch that are not converted.
NotConverted ==
    {k \in 1..Len(batch.files) :
        batch.files[k].kind \in {"nosubs", "missing", "unreadable", "locked"}}

\* C12 - Aggregate report: when a batch of the GUI or of the CLI is over,
\* total is the number of files of the batch, successful + failed = total,
\* failed counts exactly the files that were not converted (a file without
\* subtitles among them), and the GUI's error list has one entry per failed
\* file, in list order.
C12_AggregateReport ==
    (batch # <<>> /\ batch.at = "done" /\ batch.frontend \in {"gui", "cli"}) =>
        /\ batch.total = Len(batch.files)
        /\ batch.successful + batch.failed = batch.total
        /\ batch.failed = Cardinality(NotConverted)
        /\ batch.frontend = "gui" =>
               /\ Len(batch.errors) = batch.failed
               /\ \A k \in 1..Len(batch.errors) : batch.errors[k].file \in NotConverted
               /\ \A k \in 1..(Len(batch.errors) - 1) :
                      batch.errors[k].file < batch.errors[k + 1].file

(***************************************************************************)
(* Several parse calls in flight at once, statement by statement, on       *)
(* parser instances that may be shared.  The only instance state is the    *)
(* field errors of srt_parser.SRTParser; content and subtitles are local   *)
(* variables of each call, and app.SRTParser.parse is a class method.      *)
(* A call is [on, data, pc, content, subtitles]: the instance it runs on,  *)
(* its input, its position and its local variables.                        *)
(***************************************************************************)
MaxCalls == 2

Instances == {1, 2}

TrailData == Render(<<Block("trail", 1)>>)

\* Two blocks whose index int() rejects: the regex tier of srt_parser.py
\* appends one message for each.
TwoHugeData == Render(<<Block("huge", 1), Block("huge", 2)>>)

CallInputs == {GoodData, NoBlockData, TrailData, TwoHugeData}

NewCall(on, data) ==
    [on |-> on, data |-> data, pc |-> "start", content |-> <<>>,
     matches |-> <<>>, k |-> 0, subtitles |-> <<>>]

\* The content every call reads taken from the first call's frame, as if it
\* were kept in one place for all calls.
OwnContent_Shared(calls, c) == calls[1].content

\* The local variable content of call c
OwnContent(calls, c) == calls[c].content

\* srt_parser.py lines 218-220: the message _regex_parse appends to
\* self.errors for a match whose index int() rejects, named by the match
regex_error_one(match) ==
    IF IntParse(match.g0).ok THEN <<>> ELSE <<match>>

\* The messages of one whole run of _regex_parse, one per such match
regex_errors(text) ==
    SelectSeq(FindAll(text), LAMBDA m : ~IntParse(m.g0).ok)

\* The calls to run, each on an instance and an input.  The instances are
\* alike, so the first call is put on instance 1.
InitCalls ==
    /\ impl \in Impls
    /\ \E n \in 1..MaxCalls :
       \E ons \in [1..n -> Instances] : \E ds \in [1..n -> CallInputs] :
           /\ ons[1] = 1
           /\ inst = [errors |-> [i \in Instances |-> <<>>],
                      calls |-> [c \in 1..n |-> NewCall(ons[c], ds[c])]]
    /\ pc = "calls"
    /\ bytes = <<>> /\ blocks = <<>> /\ content = <<>>
    /\ IdleParser
    /\ batch = <<>> /\ writer = <<>>

CallsUnchanged ==
    UNCHANGED <<impl, pc, bytes, blocks, content, tried, regexOut, subtitles,
                fallbackRan, once, twice, batch, writer>>

\* srt_parser.py lines 112-113: self.errors = [] and the file is read;
\* app.py line 154: the buffer is decoded
CallRead(c) ==
    /\ inst.calls[c].pc = "start"
    /\ inst' = [inst EXCEPT
                   !.errors[inst.calls[c].on] =
                       IF impl = "srt_parser" THEN <<>> ELSE @,
                   !.calls[c].content =
                       IF impl = "srt_parser" THEN read_file(inst.calls[c].data).text
                       ELSE decode(inst.calls[c].data).text,
                   !.calls[c].pc = "read"]
    /\ CallsUnchanged

\* srt_parser.py line 114 / app.py lines 155-156
CallClean(c) ==
    /\ inst.calls[c].pc = "read"
    /\ inst' = [inst EXCEPT
                   !.calls[c].content = Normalize(OwnContent(inst.calls, c)),
                   !.calls[c].pc = "cleaned"]
    /\ CallsUnchanged

\* srt_parser.py lines 205-206 / app.py lines 184-185: _regex_parse begins,
\* findall gives the matches of the call's own content
CallRegex(c) ==
    /\ inst.calls[c].pc = "cleaned"
    /\ \E ms \in {FindAll(OwnContent(inst.calls, c))} :
           inst' = [inst EXCEPT
                       !.calls[c].matches = ms,
                       !.calls[c].k = 0,
                       !.calls[c].subtitles = <<>>,
                       !.calls[c].pc = IF ms = <<>> THEN "regex_done"
                                       ELSE "matching"]
    /\ CallsUnchanged

\* srt_parser.py lines 208-220 / app.py lines 185-194: one turn of the loop.
\* The match gives a record, or nothing, or in srt_parser.py a message that
\* is appended to self.errors as the instance holds it at that moment; after
\* the last match _regex_parse returns.
CallMatch(c) ==
    /\ inst.calls[c].pc = "matching"
    /\ \E m \in {inst.calls[c].matches[inst.calls[c].k + 1]} :
           inst' = [inst EXCEPT
                       !.errors[inst.calls[c].on] =
                           IF impl = "srt_parser"
                           THEN @ \o regex_error_one(m)
                           ELSE @,
                       !.calls[c].subtitles =
                           IF impl = "srt_parser"
                           THEN @ \o regex_parse_one(m)
                           ELSE @ \o app_regex_parse_one(m),
                       !.calls[c].k = @ + 1,
                       !.calls[c].pc =
                           IF inst.calls[c].k + 1 = Len(inst.calls[c].matches)
                           THEN "regex_done" ELSE "matching"]
    /\ CallsUnchanged

\* srt_parser.py lines 120-123 / app.py lines 159-162
CallReturn(c) ==
    /\ inst.calls[c].pc = "regex_done"
    /\ inst' = [inst EXCEPT
                   !.calls[c].subtitles =
                       WithFallback(@, OwnContent(inst.calls, c),
                                    impl = "srt_parser"),
                   !.calls[c].pc = "done"]
    /\ CallsUnchanged

NextCalls ==
    /\ inst # <<>>
    /\ \E c \in 1..Len(inst.calls) :
           CallRead(c) \/ CallClean(c) \/ CallRegex(c) \/ CallMatch(c)
           \/ CallReturn(c)

SpecCalls == InitCalls /\ [][NextCalls]_vars

\* The calls that have returned.
DoneCalls == {c \in 1..Len(inst.calls) : inst.calls[c].pc = "done"}

\* What one call alone returns on the input data.
AloneResult(data) ==
    IF impl = "srt_parser" THEN parse_text(read_file(data).text)
    ELSE parse(data).subtitles

\* C13 - No cross-call state: what a parse call returns depends on its input
\* alone.  A call that has returned has the records a call running alone
\* returns on that input, whatever calls ran interleaved with it on the same
\* instance or on another; so any two calls given equal input have returned
\* equal record sequences.
C13_NoCrossCallState ==
    inst # <<>> =>
        /\ \A c \in DoneCalls : inst.calls[c].subtitles = AloneResult(inst.calls[c].data)
        /\ \A c \in DoneCalls : \A d \in DoneCalls :
               inst.calls[c].data = inst.calls[d].data =>
                   inst.calls[c].subtitles = inst.calls[d].subtitles

\* Two calls on one instance, on different inputs, have both returned, the
\* first one with records.
C13_Witness ==
    /\ inst # <<>>
    /\ DoneCalls = {1, 2}
    /\ inst.calls[1].on = inst.calls[2].on
    /\ inst.calls[1].data # inst.calls[2].data
    /\ inst.calls[1].subtitles # <<>>

(***************************************************************************)
(* Files whose blocks carry chosen times, parsed and timed.                 *)
(***************************************************************************)
\* Times of day <<hours, minutes, seconds, milliseconds>>; 00:00:60.000 and
\* 00:01:00.000 are two spellings of one time.
Times ==
    {<<0, 0, 1, 0>>, <<0, 0, 1, 500>>, <<0, 0, 60, 0>>, <<0, 1, 0, 0>>,
     <<0, 59, 59, 999>>, <<1, 0, 0, 0>>}

TimeMillis(tm) == tm[1] * 3600000 + tm[2] * 60000 + tm[3] * 1000 + tm[4]

TimeStamp(tm, sep) == Stamp(tm[1], tm[2], tm[3], sep, tm[4])

\* A file of two blocks: the first from start to end, the second the block
\* of GoodData renumbered 2 (00:00:01,000 --> 00:00:01,500).
TimedFile(start, end, sep) ==
    <<49, NL>> \o TimeStamp(start, sep) \o Arrow \o TimeStamp(end, sep)
        \o <<NL>> \o Hello \o <<NL, NL, 50, NL>>
        \o Stamp(0, 0, 1, COMMA, 0) \o Arrow \o Stamp(0, 0, 1, COMMA, 500)
        \o <<NL>> \o Hi \o <<NL>>

InitDuration ==
    /\ impl \in Impls
    /\ \E start \in Times : \E end \in Times : \E sep \in {COMMA, DOT} :
           /\ blocks = <<[start |-> start, end |-> end, sep |-> sep]>>
           /\ bytes = TimedFile(start, end, sep)
    /\ pc = "start"
    /\ content = <<>>
    /\ Idle

\* parse_file / parse on the file
DurationParse ==
    /\ pc = "start"
    /\ subtitles' = IF impl = "srt_parser" THEN parse_text(read_file(bytes).text)
                    ELSE parse(bytes).subtitles
    /\ pc' = "parsed"
    /\ UNCHANGED <<impl, bytes, blocks, content, tried, regexOut, fallbackRan,
                   once, twice>>
    /\ UNCHANGED callers

\* get_duration_seconds() of every SubtitleEntry returned
DurationCompute ==
    /\ pc = "parsed" /\ impl = "srt_parser"
    /\ once' = [k \in 1..Len(subtitles) |-> get_duration_millis(subtitles[k])]
    /\ pc' = "timed"
    /\ UNCHANGED <<impl, bytes, blocks, content, tried, regexOut, subtitles,
                   fallbackRan, twice>>
    /\ UNCHANGED callers

NextDuration == DurationParse \/ DurationCompute

SpecDuration == InitDuration /\ [][NextDuration]_vars

\* C14 - Anomalous time ranges are preserved: a block yields its record
\* with both timestamps as written (the comma replaced by a period) also
\* when its end is not after its start, the records keep the order of the
\* blocks, and the duration computed on demand is end minus start with
\* seconds = hours*3600 + minutes*60 + seconds.fraction, hence <= 0 for such
\* a block.
C14_AnomalyPreserved ==
    /\ pc \in {"parsed", "timed"} =>
           /\ Len(subtitles) = 2
           /\ subtitles[1] = Entry(1, TimeStamp(blocks[1].start, DOT),
                                   TimeStamp(blocks[1].end, DOT), Hello)
           /\ subtitles[2] = Entry(2, Stamp(0, 0, 1, DOT, 0),
                                   Stamp(0, 0, 1, DOT, 500), Hi)
    /\ pc = "timed" =>
           /\ once[1] = TimeMillis(blocks[1].end) - TimeMillis(blocks[1].start)
           /\ once[2] = 500
           /\ TimeMillis(blocks[1].end) <= TimeMillis(blocks[1].start)
                  => once[1] <= 0

\* A block that ends before it starts has been parsed and timed.
C14_Witness ==
    /\ pc = "timed"
    /\ TimeMillis(blocks[1].end) < TimeMillis(blocks[1].start)
    /\ Len(subtitles) = 2
    /\ once[1] < 0

(***************************************************************************)
(* Claims on parse_file / parse (specification Spec), continued.           *)
(***************************************************************************)
\* A paragraph with an integer first line, a second line that starts with a
\* timestamp pair, and a remainder that is not empty once sanitized.
ValidParagraph(para) ==
    /\ Len(Split(para, NL)) >= 3
    /\ IntParse(Split(para, NL)[1]).ok
    /\ MatchPair(Split(para, NL)[2], 1).ok
    /\ Sanitize(Join(SubSeq(Split(para, NL), 3, Len(Split(para, NL))), <<NL>>)) # <<>>

\* The normalized text holds such a paragraph between blank lines.
HasValidParagraph ==
    \E k \in 1..Len(SplitDouble(content, NL)) :
        ValidParagraph(SplitDouble(content, NL)[k])

\* C15 - Fallback activation: when the pattern-based parser returned no
\* record on the normalized text and a blank-line-delimited paragraph of it
\* has an integer first line, a second line starting with a timestamp pair
\* and a non-empty sanitized remainder, parse returns a non-empty sequence,
\* and the fallback parser produced it.
C15_FallbackActivation ==
    (pc = "done" /\ regexOut = <<>> /\ HasValidParagraph) =>
        subtitles # <<>> /\ fallbackRan

C15_Witness ==
    /\ pc = "done" /\ regexOut = <<>> /\ HasValidParagraph
    /\ fallbackRan /\ Len(subtitles) >= 2

(***************************************************************************)
(* DOCXWriter.create_document (docx_writer.py).  The writer is             *)
(* [doc, files]: its field doc (<<>> for None, <<d>> for a document d) and *)
(* what is saved at each output path (<<>>: no file).  A subtitle is a     *)
(* record                                                                  *)
(* with a field type: "SubtitleEntry", "dict", or "str" for an object that *)
(* is neither.  A document is described by what was put into it.           *)
(***************************************************************************)
MaxWrites == 2

\* DOCXWriter.AVAILABLE_STYLES
AVAILABLE_STYLES == <<"table", "plain", "formatted", "text_only", "script">>

\* Every style passes the test.
StyleKnown_Any(style) == TRUE

\* 'style in self.AVAILABLE_STYLES'
StyleKnown(style) == \E k \in 1..Len(AVAILABLE_STYLES) : AVAILABLE_STYLES[k] = style

\* SubtitleEntry.to_dict
to_dict(sub) == [sub EXCEPT !.type = "dict"]

\* docx_writer.py lines 67-74: the first subtitle that is neither an entry
\* nor a dict raises TypeError
AllConvertible(subs) ==
    \A k \in 1..Len(subs) : subs[k].type \in {"SubtitleEntry", "dict"}

\* docx_writer.py lines 67-72: subtitle_dicts
subtitle_dicts(subs) == [k \in 1..Len(subs) |-> to_dict(subs[k])]

\* What a style writes for one subtitle: the table and the plain format
\* show the index, the timestamps and the text, the formatted and the script
\* format the timestamps and the text, text_only the text.
StyleRow(style, sub) ==
    CASE style \in {"table", "plain"} ->
             <<sub.index, sub.start_time, sub.end_time, sub.text>>
      [] style \in {"formatted", "script"} ->
             <<sub.start_time, sub.end_time, sub.text>>
      [] OTHER -> <<sub.text>>

\* docx_writer.py lines 116-130: the duration the metadata line shows, the
\* end time of the last subtitle when it is an entry or a dict and has one
Duration(subs) ==
    IF subs # <<>> /\ subs[Len(subs)].type \in {"SubtitleEntry", "dict"}
    THEN subs[Len(subs)].end_time
    ELSE <<>>

\* The document after lines 60-64: a new document with the title and the
\* metadata line, no subtitle and no footer yet.
Headed(subs, source_filename) ==
    [title |-> source_filename,
     total |-> Len(subs),
     duration |-> Duration(subs),
     body |-> <<>>,
     footer |-> <<>>]

\* The document after lines 60-88: title, metadata, the subtitles in the
\* chosen style, footer.
Document(subs, source_filename, style) ==
    [Headed(subs, source_filename) EXCEPT
        !.body = [k \in 1..Len(subs) |-> StyleRow(style, to_dict(subs[k]))],
        !.footer = <<Len(subs)>>]

\* DOCXWriter.create_document on the writer w: what it raises, the writer
\* afterwards, and the subtitles sequence afterwards.  A TypeError of line 74
\* and a KeyError of the lookup style_methods[style] of line 85 leave in
\* self.doc the document that lines 60-64 began.
create_document(w, subs, source_filename, output_path, style) ==
    IF ~StyleKnown(style)
    THEN [raised |-> "ValueError", writer |-> w, subtitles |-> subs]
    ELSE IF ~AllConvertible(subs)
    THEN [raised |-> "TypeError",
          writer |-> [w EXCEPT !.doc = <<Headed(subs, source_filename)>>],
          subtitles |-> subs]
    ELSE IF style \notin {"table", "plain", "formatted", "text_only", "script"}
    THEN [raised |-> "KeyError",
          writer |-> [w EXCEPT !.doc = <<Headed(subs, source_filename)>>],
          subtitles |-> subs]
    ELSE [raised |-> "",
          writer |-> [w EXCEPT
                         !.doc = <<Document(subs, source_filename, style)>>,
                         !.files[output_path] =
                             <<Document(subs, source_filename, style)>>],
          subtitles |-> subs]

Paths == {"out/a.docx", "out/b.docx"}

Styles == {"table", "plain", "formatted", "text_only", "script", "fancy", ""}

Sub(type, i) ==
    [type |-> type, index |-> i, start_time |-> Stamp(0, 0, i, DOT, 0),
     end_time |-> Stamp(0, 0, i, DOT, 500), text |-> Hello]

SubtitleLists ==
    UNION {[1..n -> {"SubtitleEntry", "dict", "str"}] : n \in 0..2}

SubsOf(types) == [k \in 1..Len(types) |-> Sub(types[k], k)]

InitWriter ==
    /\ impl = "srt_parser"
    /\ pc = "writer"
    /\ writer = [doc |-> <<>>, files |-> [q \in Paths |-> <<>>], calls |-> 0]
    /\ \E types \in SubtitleLists : subtitles = SubsOf(types)
    /\ bytes = <<>> /\ blocks = <<>> /\ content = <<>>
    /\ tried = <<>> /\ regexOut = <<>> /\ fallbackRan = FALSE
    /\ once = <<>> /\ twice = <<>>
    /\ batch = <<>> /\ inst = <<>>

\* One call writer.create_document(subtitles, 'a.srt', output_path, style);
\* once keeps the call and the state before it.
CreateDocument ==
    /\ pc = "writer" /\ writer.calls < MaxWrites
    /\ \E style \in Styles : \E output_path \in Paths :
       \E r \in {create_document(writer, subtitles, "a.srt", output_path, style)} :
           /\ writer' = [r.writer EXCEPT !.calls = @ + 1]
           /\ subtitles' = r.subtitles
           /\ once' = [style |-> style, output_path |-> output_path,
                       raised |-> r.raised, writer |-> writer,
                       subtitles |-> subtitles]
    /\ UNCHANGED <<impl, pc, bytes, blocks, content, tried, regexOut,
                   fallbackRan, twice, batch, inst>>

NextWriter == CreateDocument

SpecWriter == InitWriter /\ [][NextWriter]_vars

\* C16 - create_document with a style outside {table, plain, formatted,
\* text_only, script} raises ValueError before any work is done: nothing is
\* written at output_path and self.doc is what it was before the call.  With
\* a style of the set and subtitles that are SubtitleEntry objects or dicts
\* it saves a document at output_path and leaves the subtitles sequence and
\* its records as they were.
C16_StyleChecked ==
    (pc = "writer" /\ once # <<>>) =>
        /\ once.style \notin {"table", "plain", "formatted", "text_only", "script"} =>
               /\ once.raised = "ValueError"
               /\ writer.doc = once.writer.doc
               /\ writer.files = once.writer.files
        /\ (/\ once.style \in {"table", "plain", "formatted", "text_only", "script"}
            /\ \A k \in 1..Len(once.subtitles) :
                   once.subtitles[k].type \in {"SubtitleEntry", "dict"}) =>
               /\ once.raised = ""
               /\ writer.files[once.output_path] # <<>>
               /\ writer.files[once.output_path] = writer.doc
               /\ subtitles = once.subtitles

\* After a document was saved, a call with an unknown style has raised.
C16_Witness ==
    /\ pc = "writer" /\ once # <<>>
    /\ once.style = "fancy" /\ once.raised = "ValueError"
    /\ once.writer.doc # <<>>
    /\ writer.doc = once.writer.doc
    /\ Len(subtitles) = 2

(***************************************************************************)
(* The pattern-based parser on files whose blocks follow each other with   *)
(* or without a blank line, and whose text holds blank lines, digit lines  *)
(* and lines that start like a time.                                       *)
(***************************************************************************)
BoundaryKinds == {"plain", "markup", "digits", "gap", "numline", "timelike"}

\* The blocks one after the other, with a blank line between two of them
\* (sep = <<NL, NL>>) or without (sep = <<NL>>).
RenderWith(bs, sep) == Join([i \in 1..Len(bs) |-> RenderBlock(bs[i])], sep)

InitBoundary ==
    /\ impl \in Impls
    /\ pc = "start"
    /\ \E n \in 1..MaxBlocks : \E ks \in [1..n -> BoundaryKinds] :
       \E sep \in {<<NL>>, <<NL, NL>>} :
           /\ blocks = BlocksOf(ks)
           /\ bytes = sep
           /\ content = RenderWith(BlocksOf(ks), sep)
    /\ Idle

\* _regex_parse(content)
BoundaryParse ==
    /\ pc = "start"
    /\ regexOut' = IF impl = "srt_parser" THEN regex_parse(content)
                   ELSE app_regex_parse(content)
    /\ pc' = "matched"
    /\ UNCHANGED <<impl, bytes, blocks, content, tried, subtitles, fallbackRan,
                   once, twice>>
    /\ UNCHANGED callers

NextBoundary == BoundaryParse

SpecBoundary == InitBoundary /\ [][NextBoundary]_vars

\* The blocks follow each other without a blank line.
Tight == bytes = <<NL>>

\* s occurs in t.
Occurs(s, t) ==
    \E i \in 1..(Len(t) - Len(s) + 1) : SubSeq(t, i, i + Len(s) - 1) = s

\* C17 - Block boundary (no swallowing): in a file whose blocks follow each
\* other without a blank line, the body captured for a block ends before the
\* index line of the next block and that header starts a record of its own:
\* the pattern-based parser returns one record per block, in order, with the
\* block's index, and no record's text holds the timestamp line of a block.
C17_NoSwallowing ==
    (pc = "matched" /\ Tight /\ Len(blocks) >= 2) =>
        /\ Len(regexOut) = Len(blocks)
        /\ \A k \in 1..Len(regexOut) :
               /\ k <= Len(blocks) => regexOut[k].index = blocks[k].num
               /\ \A j \in 1..Len(blocks) :
                      ~Occurs(Stamp(0, 0, blocks[j].sec, COMMA, 0) \o Arrow,
                              regexOut[k].text)

\* C18 - Block boundary (completeness): the body of a block is every line
\* after its timestamp line up to the next header (a line of digits followed
\* by a timestamp-pair line) or the end of input: every block yields a
\* record whose text is all the text lines of the block, a blank line, a
\* digit line or a line that starts like a time among them notwithstanding.
C18_BodyComplete ==
    pc = "matched" =>
        /\ Len(regexOut) = Len(blocks)
        /\ \A k \in 1..Len(regexOut) :
               k <= Len(blocks) => regexOut[k].text = Join(blocks[k].clean, <<NL>>)

(***************************************************************************)
(* The line-based fallback parser on texts made of candidate blocks, one   *)
(* blank line between two of them.  A candidate is written from a kind and *)
(* its position i; 'passes' says by hand whether it passes the five checks *)
(* (lines are taken trimmed, as int() and the parser take them).           *)
(***************************************************************************)
FallbackKinds ==
    {"ok", "spaced", "signed", "short", "noint", "nopair", "tagonly"}

Candidate(kind, i) ==
    [kind |-> kind,
     num |-> i,
     passes |-> kind \in {"ok", "spaced", "signed"},
     lines |->
         <<CASE kind = "spaced" -> <<32, Digit(i), 32>>
             [] kind = "signed" -> <<PLUS, Digit(i)>>
             [] kind = "noint" -> <<120, Digit(i)>>
             [] OTHER -> <<Digit(i)>>,
           CASE kind = "spaced" ->
                    <<32, 32>> \o Stamp(0, 0, i, COMMA, 0) \o Arrow
                        \o Stamp(0, 0, i, DOT, 500) \o Coords
             [] kind = "nopair" -> TimeLike
             [] OTHER -> Stamp(0, 0, i, COMMA, 0) \o Arrow
                             \o Stamp(0, 0, i, COMMA, 500)>>
         \o CASE kind = "short" -> <<>>
              [] kind = "tagonly" -> <<EmptyTag>>
              [] kind = "spaced" -> <<TaggedHi, StyledYou>>
              [] OTHER -> <<Hello>>,
     clean |-> IF kind = "spaced" THEN <<Hi, You>> ELSE <<Hello>>]

CandidatesOf(ks) == [i \in 1..Len(ks) |-> Candidate(ks[i], i)]

RenderCandidates(cs) ==
    Join([i \in 1..Len(cs) |-> Join(cs[i].lines, <<NL>>)], <<NL, NL>>)

InitFallback ==
    /\ impl \in Impls
    /\ pc = "start"
    /\ \E n \in 1..MaxBlocks : \E ks \in [1..n -> FallbackKinds] :
           /\ blocks = CandidatesOf(ks)
           /\ content = RenderCandidates(CandidatesOf(ks))
    /\ bytes = <<>>
    /\ Idle

\* _block_parse on the normalized text
FallbackParse ==
    /\ pc = "start"
    /\ subtitles' = IF impl = "srt_parser" THEN block_parse(clean_content(content))
                    ELSE app_block_parse(app_normalize(content))
    /\ fallbackRan' = TRUE
    /\ pc' = "fallback_done"
    /\ UNCHANGED <<impl, bytes, blocks, content, tried, regexOut, once, twice>>
    /\ UNCHANGED callers

NextFallback == FallbackParse

SpecFallback == InitFallback /\ [][NextFallback]_vars

\* The positions of the candidates that pass the five checks, in order.
Passing == SelectSeq([i \in 1..Len(blocks) |-> i], LAMBDA i : blocks[i].passes)

\* C19 - Fallback acceptance: the line-based parser produces a record for a
\* candidate block exactly if the block has at least 3 lines, its line 1 is
\* an integer, its line 2 starts with a timestamp pair (what follows the
\* pair is ignored) and its lines 3 onward are not empty once sanitized; a
\* failing block is dropped without an exception and without effect on the
\* other blocks, and the records come in the order of their blocks, each
\* with its block's index, timestamps (with a period) and sanitized body.
C19_FallbackAcceptance ==
    pc = "fallback_done" =>
        /\ Len(subtitles) = Len(Passing)
        /\ \A k \in 1..Len(subtitles) :
               k <= Len(Passing) =>
                   subtitles[k] =
                       Entry(blocks[Passing[k]].num,
                             Stamp(0, 0, blocks[Passing[k]].num, DOT, 0),
                             Stamp(0, 0, blocks[Passing[k]].num, DOT, 500),
                             Join(blocks[Passing[k]].clean, <<NL>>))

\* A passing block after a failing one and before another failing one.
C19_Witness ==
    /\ pc = "fallback_done"
    /\ Len(blocks) = 3
    /\ ~blocks[1].passes /\ blocks[2].passes /\ ~blocks[3].passes
    /\ Len(subtitles) = 1 /\ subtitles[1].index = 2

(***************************************************************************)
(* Decoder priority, under Spec: the state after ReadFile / Decode.        *)
(***************************************************************************)
\* The priority list of the implementation that runs.
PriorityList == IF impl = "srt_parser" THEN ENCODINGS ELSE APP_ENCODINGS

\* The position of the earliest encoding of the list that decodes the
\* buffer without error (bytes.decode), one past the list if none does.
EarliestDecoding(encodings, b) ==
    FirstFrom(1, Len(encodings), LAMBDA k : DecodeWith(encodings[k], b).ok)

\* C20 - Decoder priority: decoding returns the text produced by the earliest
\* encoding of the priority list that decodes the buffer without error (for
\* the file reader, with its line endings read as '\n'); the encodings
\* tried are exactly those up to that one, so each was tried only after
\* all before it had failed; and decoding leaves the buffer and the rest of
\* the state alone.
C20_DecoderPriority ==
    pc = "read" =>
        LET k == EarliestDecoding(PriorityList, bytes)
        IN  /\ k <= Len(PriorityList)
            /\ tried = SubSeq(PriorityList, 1, k)
            /\ content = IF impl = "srt_parser"
                         THEN UniversalNewlines(DecodeWith(PriorityList[k], bytes).text)
                         ELSE DecodeWith(PriorityList[k], bytes).text
            /\ regexOut = <<>> /\ subtitles = <<>> /\ fallbackRan = FALSE

(***************************************************************************)
(* The diagnostic log self.errors of one srt_parser.SRTParser instance     *)
(* over a sequence of parse_file calls.  inst is [errors, history]: the    *)
(* list and the files given to the calls made so far.                      *)
(***************************************************************************)
\* A block whose index has more digits than int() takes
HugeData == Render(<<Block("huge", 1)>>)

\* That block followed by a well-formed one
MixedData == Render(<<Block("huge", 1), Block("plain", 2)>>)

LogKinds == {"good", "huge", "mixed", "missing", "notsrt", "unreadable"}

LogFile(kind) ==
    [kind |-> kind,
     exists |-> kind # "missing",
     srt |-> kind # "notsrt",
     readable |-> kind # "unreadable",
     data |-> CASE kind = "huge" -> HugeData
                [] kind = "mixed" -> MixedData
                [] OTHER -> GoodData]

\* self.errors after parse_file(f), errors being the list before the call:
\* lines 106-110 raise before the list is touched, line 112 empties it, and
\* _regex_parse appends to it.
parse_file_errors(errors, f) ==
    IF ~f.exists \/ ~f.srt THEN errors
    ELSE IF ~f.readable \/ ~read_file(f.data).ok THEN <<>>
    ELSE regex_errors(clean_content(read_file(f.data).text))

InitLog ==
    /\ impl = "srt_parser"
    /\ pc = "log"
    /\ inst = [errors |-> <<>>, history |-> <<>>, result |-> Returns(<<>>)]
    /\ bytes = <<>> /\ blocks = <<>> /\ content = <<>>
    /\ IdleParser
    /\ batch = <<>> /\ writer = <<>>

\* One parse_file call on the instance, from its first line to its return
\* or its exception.
ParseFileCall ==
    /\ pc = "log"
    /\ Len(inst.history) < MaxFiles
    /\ \E kind \in LogKinds :
           inst' = [errors |-> parse_file_errors(inst.errors, LogFile(kind)),
                    history |-> Append(inst.history, kind),
                    result |-> parse_file(LogFile(kind))]
    /\ CallsUnchanged

NextLog == ParseFileCall

SpecLog == InitLog /\ [][NextLog]_vars

\* The diagnostics a parse_file call on f produces itself: one per match
\* whose index int() rejects, none if the call raised before parsing.
DiagnosticsOf(f) ==
    IF f.exists /\ f.srt /\ f.readable /\ read_file(f.data).ok
    THEN regex_errors(clean_content(read_file(f.data).text))
    ELSE <<>>

\* C21 - Diagnostic log reset: after any parse_file call, whether it returned
\* or raised (FileNotFoundError for a missing path and ValueError for a name
\* that does not end in .srt included), errors holds the diagnostics of
\* that call only and none of an earlier call on the same instance.
C21_LogReset ==
    (pc = "log" /\ inst.history # <<>>) =>
        inst.errors = DiagnosticsOf(LogFile(inst.history[Len(inst.history)]))

(***************************************************************************)
(* The desktop application SRTtoDocxApp (converter.py): the handlers of    *)
(* the main thread, the worker threads that run _convert_files, and the    *)
(* callbacks the workers post with root.after.                             *)
(*   inst   the application: its fields, the position of the main thread   *)
(*          (main = "scanning" between lines 464 and 471 of scan_files),   *)
(*          and the queue of posted callbacks                               *)
(*   batch  the worker threads started so far, each with its position and  *)
(*          local variables                                                *)
(*   content what parse_file returns or raises for each file on the disk   *)
(*   once   the handler that ran last and the fields as they were before   *)
(*          it, for clear_all and start_conversion                         *)
(* A dialog is its answer.  The status label is left out.                  *)
(***************************************************************************)
MaxConversions == 2

\* The folders the user can choose and the .srt files find_srt_files
\* returns for them, named by what parse_file does with them.
Folders == {"A", "B"}

FolderFiles(folder) ==
    IF folder = "A" THEN <<"good", "nosubs">> ELSE <<"missing">>

\* The fields a refused handler must leave alone.
Fields(app, workers) ==
    [source_folder |-> app.source_folder, output_folder |-> app.output_folder,
     srt_files |-> app.srt_files, file_listbox |-> app.file_listbox,
     progress |-> app.progress, is_converting |-> app.is_converting,
     buttons |-> app.buttons, threads |-> Len(workers)]

Called(handler) == [handler |-> handler, before |-> Fields(inst, batch)]

\* threading.Thread(target=self._convert_files): the thread before its
\* first statement.  confirmed remembers the list the user confirmed.
NewWorker(files) ==
    [pc |-> "begin", total |-> 0, list |-> <<>>, i |-> 0, successful |-> 0,
     failed |-> 0, confirmed |-> files]

\* The thread started with the flag left as it was.
Converting_FlagNotSet(app, output) ==
    [app EXCEPT !.output_folder = output, !.buttons = FALSE,
                !.progress = Percent(0, 1)]

\* start_conversion lines 556-558
Converting(app, output) ==
    [app EXCEPT !.output_folder = output, !.is_converting = TRUE,
                !.buttons = FALSE, !.progress = Percent(0, 1)]

InitGui ==
    /\ impl = "srt_parser"
    /\ pc = "gui"
    /\ inst = [source_folder |-> "", output_folder |-> "", srt_files |-> <<>>,
               file_listbox |-> <<>>, progress |-> Percent(0, 1),
               is_converting |-> FALSE,
               buttons |-> TRUE, main |-> "idle", after |-> <<>>,
               completed |-> 0]
    /\ batch = <<>>
    /\ once = <<>>
    /\ content = [kind \in FileKinds("gui") |-> parse_file(BatchFile(kind))]
    /\ bytes = <<>> /\ blocks = <<>>
    /\ tried = <<>> /\ regexOut = <<>> /\ subtitles = <<>>
    /\ fallbackRan = FALSE /\ twice = <<>> /\ writer = <<>>

GuiUnchanged ==
    UNCHANGED <<impl, pc, bytes, blocks, content, tried, regexOut, subtitles,
                fallbackRan, twice, writer>>

\* scan_files up to line 467: the list is emptied.
ScanStart(app) ==
    [app EXCEPT !.file_listbox = <<>>, !.srt_files = <<>>,
                !.progress = Percent(0, 1),
                !.main = "scanning"]

\* browse_source: the user picks a folder (a cancelled dialog changes
\* nothing) and scan_files starts.  The Browse button is never disabled.
BrowseSource ==
    /\ pc = "gui" /\ inst.main = "idle"
    /\ \E folder \in Folders :
           inst' = ScanStart([inst EXCEPT !.source_folder = folder])
    /\ once' = <<>>
    /\ UNCHANGED batch
    /\ GuiUnchanged

\* browse_output
BrowseOutput ==
    /\ pc = "gui" /\ inst.main = "idle"
    /\ inst' = [inst EXCEPT !.output_folder = "out"]
    /\ once' = <<>>
    /\ UNCHANGED batch
    /\ GuiUnchanged

\* scan_files through the Scan button, up to line 467
ScanFiles ==
    /\ pc = "gui" /\ inst.main = "idle"
    /\ inst.buttons
    /\ inst.source_folder # ""
    /\ inst' = ScanStart(inst)
    /\ once' = <<>>
    /\ UNCHANGED batch
    /\ GuiUnchanged

\* scan_files from line 470 on: the list is replaced by the files found
ScanFind ==
    /\ pc = "gui" /\ inst.main = "scanning"
    /\ inst' = [inst EXCEPT !.srt_files = FolderFiles(inst.source_folder),
                            !.file_listbox = FolderFiles(inst.source_folder),
                            !.main = "idle"]
    /\ once' = <<>>
    /\ UNCHANGED batch
    /\ GuiUnchanged

\* The test that opens clear_all and start_conversion with the guard
\* removed.
Busy_Never(app) == FALSE

\* 'if self.is_converting: ... return'
Busy(app) == app.is_converting

\* clear_all
ClearAll ==
    /\ pc = "gui" /\ inst.main = "idle"
    /\ inst' = IF Busy(inst) THEN inst
               ELSE [inst EXCEPT !.source_folder = "", !.output_folder = "",
                                 !.file_listbox = <<>>, !.srt_files = <<>>,
                                 !.progress = Percent(0, 1)]
    /\ once' = Called("clear_all")
    /\ UNCHANGED batch
    /\ GuiUnchanged

\* start_conversion: folder is the answer to the output folder dialog ("" if
\* cancelled), confirmed the answer to the confirmation.
StartConversion ==
    /\ pc = "gui" /\ inst.main = "idle"
    /\ Len(batch) < MaxConversions
    /\ \E folder \in {"", "out"} : \E confirmed \in BOOLEAN :
           LET output == IF inst.output_folder = "" THEN folder
                         ELSE inst.output_folder
           IN  IF Busy(inst) \/ inst.srt_files = <<>> \/ output = ""
               THEN inst' = inst /\ batch' = batch
               ELSE IF ~confirmed
               THEN inst' = [inst EXCEPT !.output_folder = output]
                    /\ batch' = batch
               ELSE /\ inst' = Converting(inst, output)
                    /\ batch' = Append(batch, NewWorker(inst.srt_files))
    /\ once' = Called("start_conversion")
    /\ GuiUnchanged

\* _convert_files lines 590-592
WorkerBegin(w) ==
    /\ batch[w].pc = "begin"
    /\ batch' = [batch EXCEPT ![w].pc = "roots"]
    /\ UNCHANGED inst

\* line 594: total = len(self.srt_files)
WorkerTotal(w) ==
    /\ batch[w].pc = "roots"
    /\ batch' = [batch EXCEPT ![w].total = Len(inst.srt_files),
                              ![w].pc = "total"]
    /\ UNCHANGED inst

\* line 599: the loop takes the list self.srt_files names at this moment
WorkerLoop(w) ==
    /\ batch[w].pc = "total"
    /\ batch' = [batch EXCEPT ![w].list = inst.srt_files, ![w].pc = "loop"]
    /\ UNCHANGED inst

\* line 608: the thread enters parse_file
WorkerParse(w) ==
    /\ batch[w].pc = "loop"
    /\ batch[w].i < Len(batch[w].list)
    /\ batch' = [batch EXCEPT ![w].pc = "parsing"]
    /\ UNCHANGED inst

\* lines 608-657: the rest of the loop body.  'continue' goes to the next
\* file, every other way leads to the progress update.
WorkerFile(w) ==
    /\ batch[w].pc = "parsing"
    /\ \E outcome \in {Outcome(BatchFile(batch[w].list[batch[w].i + 1]),
                               content[batch[w].list[batch[w].i + 1]])} :
           batch' = [batch EXCEPT
                        ![w].successful = Succeeded(@, outcome),
                        ![w].failed = Failed(@, outcome),
                        ![w].i = IF outcome = "empty" THEN @ + 1 ELSE @,
                        ![w].pc = IF outcome = "empty" THEN "loop"
                                  ELSE "progress"]
    /\ UNCHANGED inst

\* lines 659-660: the division raises ZeroDivisionError when total is 0,
\* outside the try statement, and the thread ends.
WorkerProgress(w) ==
    /\ batch[w].pc = "progress"
    /\ IF batch[w].total = 0
       THEN batch' = [batch EXCEPT ![w].pc = "crashed"] /\ UNCHANGED inst
       ELSE /\ batch' = [batch EXCEPT ![w].i = @ + 1, ![w].pc = "loop"]
            /\ inst' = [inst EXCEPT !.after =
                           Append(@, [callback |-> "_update_progress",
                                      value |-> Percent(batch[w].i + 1,
                                                        batch[w].total)])]

\* lines 663-666 after the last file
WorkerDone(w) ==
    /\ batch[w].pc = "loop"
    /\ batch[w].i = Len(batch[w].list)
    /\ batch' = [batch EXCEPT ![w].pc = "finished"]
    /\ inst' = [inst EXCEPT !.after =
                   Append(@, [callback |-> "_conversion_complete",
                              value |-> w])]

Worker(w) ==
    /\ pc = "gui"
    /\ \/ WorkerBegin(w) \/ WorkerTotal(w) \/ WorkerLoop(w) \/ WorkerParse(w)
       \/ WorkerFile(w) \/ WorkerProgress(w) \/ WorkerDone(w)
    /\ once' = <<>>
    /\ GuiUnchanged

\* The main loop runs the oldest posted callback: _update_progress or
\* _conversion_complete.
AfterCallback ==
    /\ pc = "gui" /\ inst.main = "idle"
    /\ inst.after # <<>>
    /\ inst' = IF Head(inst.after).callback = "_update_progress"
               THEN [inst EXCEPT !.progress = Head(inst.after).value,
                                 !.after = Tail(@)]
               ELSE [inst EXCEPT !.is_converting = FALSE, !.buttons = TRUE,
                                 !.progress = Percent(1, 1),
                                 !.completed = @ + 1,
                                 !.after = Tail(@)]
    /\ once' = <<>>
    /\ UNCHANGED batch
    /\ GuiUnchanged

NextGui ==
    \/ BrowseSource \/ BrowseOutput \/ ScanFiles \/ ScanFind \/ ClearAll
    \/ StartConversion \/ AfterCallback
    \/ \E w \in 1..Len(batch) : Worker(w)

SpecGui == InitGui /\ [][NextGui]_vars

\* The worker threads that have not ended.
ActiveWorkers == {w \in 1..Len(batch) : batch[w].pc \notin {"finished", "crashed"}}

\* C22 - Single conversion at a time: at most one worker thread is at work
\* at any moment and at most one thread is inside parse_file; while a worker
\* is at work is_converting is True, and is_converting is False only when
\* every worker started has processed its last file and _conversion_complete
\* has run for it.
C22_SingleConversion ==
    pc = "gui" =>
        /\ Cardinality(ActiveWorkers) <= 1
        /\ Cardinality({w \in 1..Len(batch) : batch[w].pc = "parsing"}) <= 1
        /\ ActiveWorkers # {} => inst.is_converting
        /\ ~inst.is_converting =>
               /\ \A w \in 1..Len(batch) : batch[w].pc = "finished"
               /\ inst.completed = Len(batch)

\* A second conversion is inside parse_file after the first one completed.
C22_Witness ==
    /\ pc = "gui"
    /\ Len(batch) = 2
    /\ batch[1].pc = "finished"
    /\ batch[2].pc = "parsing"

\* C25 - clear_all and start_conversion refused during a conversion: called
\* while is_converting is True, each leaves source_folder, output_folder,
\* srt_files, the file list, the progress value, the flag and the buttons as
\* they were and starts no thread.
C25_RefusedWhileConverting ==
    (pc = "gui" /\ once # <<>>) =>
        (once.before.is_converting => Fields(inst, batch) = once.before)

\* clear_all was called during a conversion with folders and files set.
C25_WitnessClear ==
    /\ pc = "gui" /\ once # <<>>
    /\ once.handler = "clear_all"
    /\ once.before.is_converting
    /\ inst.source_folder # "" /\ inst.output_folder # ""
    /\ inst.srt_files # <<>>

\* C24 - Stable work list: the list a worker iterates is the list srt_files
\* named when the user confirmed the conversion, and its total is the length
\* of the list it iterates.
C24_StableWorkList ==
    pc = "gui" =>
        \A w \in 1..Len(batch) :
            batch[w].pc \in {"loop", "parsing", "progress", "finished", "crashed"} =>
                /\ batch[w].list = batch[w].confirmed
                /\ batch[w].total = Len(batch[w].list)

(***************************************************************************)
(* Progress of the application: the main loop runs every posted callback   *)
(* and finishes a scan it began, and every thread that can take a step     *)
(* does.                                                                   *)
(***************************************************************************)
WorkerStep(w) == w \in 1..Len(batch) /\ Worker(w)

SpecGuiLive ==
    /\ SpecGui
    /\ SF_vars(AfterCallback)
    /\ WF_vars(ScanFind)
    /\ \A w \in 1..MaxConversions : WF_vars(WorkerStep(w))

\* C23 - Conversion completes: a conversion that was started eventually
\* reaches _conversion_complete, which sets is_converting to False, enables
\* the buttons again and sets the progress to 100.
C23_ConversionCompletes ==
    (pc = "gui" /\ inst.is_converting)
        ~> (~inst.is_converting /\ inst.buttons
            /\ inst.progress = Percent(1, 1))

(***************************************************************************)
(* Output names (converter.py lines 617-641 and 835-843).  A file name     *)
(* without its extension is a sequence of parts: <<"a">> is 'a' and        *)
(* <<"a", 1>> is 'a (1)', so that the name 'a (1).docx' made for the base  *)
(* 'a' with counter 1 is the name made for the base 'a (1)' itself.  A     *)
(* path is [dir, name].  writer.files is the set of paths that exist,      *)
(* writer.docs the source each document written in the batch came from.    *)
(***************************************************************************)
Bases == {<<"a">>, <<"a", 1>>, <<"b">>}

SourceDirs == {"", "sub"}

\* The source files a scan can find: [dir, base, ok], ok saying that the
\* file has subtitles.
SourceFiles ==
    [dir : SourceDirs, base : {<<"a">>, <<"a", 1>>}, ok : {TRUE}]
        \cup [dir : {""}, base : {<<"b">>}, ok : {FALSE}]

\* The documents that may be in the output folder before the batch
OldPaths == {[dir |-> "", name |-> <<"a">>], [dir |-> "", name |-> <<"a", 1>>],
             [dir |-> "sub", name |-> <<"a">>]}

\* f"{base_name} ({counter}).docx"
Numbered(base, counter) == Append(base, counter)

\* The name taken without looking at the folder.
FreeName_NoSearch(files, dir, base, name, counter) == name

\* 'while os.path.exists(output_path)': the first name that is free, from
\* the name tried and the counter for the next one.
RECURSIVE FreeName(_, _, _, _, _)
FreeName(files, dir, base, name, counter) ==
    IF [dir |-> dir, name |-> name] \in files
    THEN FreeName(files, dir, base, Numbered(base, counter), counter + 1)
    ELSE name

\* The folder the document goes to: the GUI keeps the subfolder of the
\* source file, the CLI writes every document to the output folder.
OutputDir(frontend, f) == IF frontend = "gui" THEN f.dir ELSE ""

\* The output path of the source file f when the paths in files exist.
OutputPath(frontend, files, f) ==
    [dir |-> OutputDir(frontend, f),
     name |-> FreeName(files, OutputDir(frontend, f), f.base, f.base, 1)]

InitNames ==
    /\ impl = "srt_parser"
    /\ pc = "names"
    /\ \E frontend \in {"gui", "cli"} : \E n \in 1..MaxFiles :
       \E fs \in [1..n -> SourceFiles] : \E old \in SUBSET OldPaths :
           /\ batch = [frontend |-> frontend, files |-> fs, i |-> 1,
                       chosen |-> <<>>]
           /\ writer = [files |-> old, old |-> old, docs |-> <<>>]
    /\ bytes = <<>> /\ blocks = <<>> /\ content = <<>>
    /\ IdleParser
    /\ inst = <<>>

\* One pass of the loop for a file: no document for a file without
\* subtitles, otherwise the name is chosen and the document saved there.
ConvertNamed ==
    /\ pc = "names"
    /\ batch.i <= Len(batch.files)
    /\ IF ~batch.files[batch.i].ok
       THEN /\ batch' = [batch EXCEPT !.i = @ + 1]
            /\ UNCHANGED writer
       ELSE \E path \in {OutputPath(batch.frontend, writer.files,
                                    batch.files[batch.i])} :
                /\ batch' = [batch EXCEPT
                                !.i = @ + 1,
                                !.chosen = Append(@, [path |-> path,
                                                      source |-> batch.i,
                                                      before |-> writer.files])]
                /\ writer' = [writer EXCEPT
                                 !.files = @ \cup {path},
                                 !.docs = Append(@, [path |-> path,
                                                     source |-> batch.i])]
    /\ UNCHANGED <<impl, pc, bytes, blocks, content, tried, regexOut,
                   subtitles, fallbackRan, once, twice, inst>>

NextNames == ConvertNamed

SpecNames == InitNames /\ [][NextNames]_vars

\* The counters k >= 1 whose name for base is taken in dir.
TakenUpTo(files, dir, base, k) ==
    \A j \in 1..k : [dir |-> dir, name |-> Numbered(base, j)] \in files

\* C26 - No overwrite on output: the path chosen for a converted file did
\* not exist when it was chosen; it is the base name if that was free and
\* otherwise the base name with the smallest counter k >= 1 that was free;
\* the documents of one batch have distinct paths, one per converted file,
\* and every document that was there before the batch is still there.
C26_NoOverwrite ==
    pc = "names" =>
        /\ \A c \in 1..Len(batch.chosen) :
               LET ch == batch.chosen[c]
                   base == batch.files[ch.source].base
                   plain == [dir |-> ch.path.dir, name |-> base]
               IN  /\ ch.path \notin ch.before
                   /\ plain \notin ch.before => ch.path = plain
                   /\ plain \in ch.before =>
                          \E k \in 1..(Cardinality(ch.before) + 1) :
                              /\ ch.path.name = Numbered(base, k)
                              /\ TakenUpTo(ch.before, ch.path.dir, base, k - 1)
        /\ \A c \in 1..Len(writer.docs) : \A d \in 1..Len(writer.docs) :
               c # d => writer.docs[c].path # writer.docs[d].path
        /\ writer.old \subseteq writer.files
        /\ Cardinality(writer.files) = Cardinality(writer.old) + Len(writer.docs)

\* Three source files with the base name 'a' were written to one folder
\* that already held 'a.docx'.
C26_Witness ==
    /\ pc = "names"
    /\ batch.frontend = "cli"
    /\ [dir |-> "", name |-> <<"a">>] \in writer.old
    /\ Len(writer.docs) = 3
    /\ \A c \in 1..3 : batch.files[writer.docs[c].source].base = <<"a">>

(***************************************************************************)
(* run_cli: the style chosen from the answer to 'Select format'.           *)
(***************************************************************************)
MaxAnswer == 3

\* converter.py line 798
formats == <<"table", "plain", "formatted", "text_only", "script">>

\* list[idx] of Python: 0 is the first item, -1 the last one, IndexError
\* outside -len..len-1
ListItem(list, idx) ==
    IF idx >= 0 /\ idx < Len(list) THEN [ok |-> TRUE, item |-> list[idx + 1]]
    ELSE IF idx < 0 /\ idx >= 0 - Len(list)
    THEN [ok |-> TRUE, item |-> list[Len(list) + idx + 1]]
    ELSE [ok |-> FALSE]

\* converter.py lines 802-807 for the line the user typed
select_style(answer) ==
    LET choice == Strip(answer)
        n == IntParse(choice)
    IN  IF choice = <<>> THEN formats[1]
        ELSE IF ~n.ok THEN "table"
        ELSE IF ListItem(formats, n.val - 1).ok
        THEN ListItem(formats, n.val - 1).item
        ELSE "table"

\* The characters of an answer: digits, a sign, a letter, a blank
AnswerAlphabet == {48, 49, 50, 53, 54, DASH, 120, 32}

Answers == UNION {[1..n -> AnswerAlphabet] : n \in 0..MaxAnswer}

InitStyle ==
    /\ impl = "srt_parser"
    /\ pc = "ask"
    /\ content \in Answers
    /\ bytes = <<>> /\ blocks = <<>>
    /\ Idle

\* lines 802-807: the style is set from the answer held in content
SelectFormat ==
    /\ pc = "ask"
    /\ once' = <<select_style(content)>>
    /\ pc' = "style"
    /\ UNCHANGED <<impl, bytes, blocks, content, tried, regexOut, subtitles,
                   fallbackRan, twice>>
    /\ UNCHANGED callers

NextStyle == SelectFormat

SpecStyle == InitStyle /\ [][NextStyle]_vars

\* C28 - CLI style selection: an answer that is one of the numbers 1..5
\* gives the style of that number in the list table, plain, formatted,
\* text_only, script; every other answer (empty, not a number, 0, a negative
\* number, a number above 5) gives 'table'.
C28_StyleSelection ==
    pc = "style" =>
        once[1] = IF IntParse(Strip(content)).ok
                     /\ IntParse(Strip(content)).val \in 1..5
                  THEN formats[IntParse(Strip(content)).val]
                  ELSE "table"

(***************************************************************************)
(* The upload loop of app.py with its dictionary converted_files.  An      *)
(* upload is [base, ext, kind]: its name is base.ext and kind says what    *)
(* the file holds (BatchFile).  A dictionary is the sequence of its        *)
(* entries [key, value] in insertion order.                                *)
(***************************************************************************)
Uploads ==
    [base : {"a", "b"}, ext : {"srt", "SRT"}, kind : {"good"}]
        \cup [base : {"a"}, ext : {"srt"}, kind : {"nosubs", "locked"}]

\* os.path.splitext(filename)[0] and f"{base_name}.docx"
docx_name(upload) == upload.base

\* d[key] = value: the value of an existing key is replaced in place, a new
\* key is added at the end
DictSet(d, key, value) ==
    IF \E k \in 1..Len(d) : d[k].key = key
    THEN [k \in 1..Len(d) |->
             IF d[k].key = key THEN [key |-> key, value |-> value] ELSE d[k]]
    ELSE Append(d, [key |-> key, value |-> value])

InitUpload ==
    /\ impl = "app"
    /\ pc = "upload"
    /\ \E n \in 1..MaxFiles : \E fs \in [1..n -> Uploads] :
           batch = [files |-> fs, i |-> 1, converted_files |-> <<>>,
                    all_stats |-> <<>>, done |-> FALSE]
    /\ bytes = <<>> /\ blocks = <<>> /\ content = <<>>
    /\ IdleParser
    /\ inst = <<>> /\ writer = <<>>

\* app.py lines 596-636: one pass of the loop.  The document made for the
\* upload is named by the position of the upload.
UploadConvert ==
    /\ pc = "upload" /\ ~batch.done
    /\ batch.i <= Len(batch.files)
    /\ \E r \in {parse(BatchFile(batch.files[batch.i].kind).data)} :
       \E o \in {Outcome(BatchFile(batch.files[batch.i].kind), r)} :
           batch' = [batch EXCEPT
                        !.converted_files =
                            IF o = "ok"
                            THEN DictSet(@, docx_name(batch.files[batch.i]),
                                         batch.i)
                            ELSE @,
                        !.all_stats = Append(@, [file |-> batch.i,
                                                 status |-> WebStatus(o),
                                                 count |-> IF o = "ok"
                                                           THEN Len(r.subtitles)
                                                           ELSE 0]),
                        !.i = @ + 1]
    /\ BatchUnchanged

\* app.py line 638: the loop is over
UploadComplete ==
    /\ pc = "upload" /\ ~batch.done
    /\ batch.i > Len(batch.files)
    /\ batch' = [batch EXCEPT !.done = TRUE]
    /\ BatchUnchanged

NextUpload == UploadConvert \/ UploadComplete

SpecUpload == InitUpload /\ [][NextUpload]_vars

\* The uploads reported with the status Success.
Successes ==
    {k \in 1..Len(batch.all_stats) : batch.all_stats[k].status = "Success"}

\* C27 - Web batch keeps one document per successful file: after the upload
\* loop converted_files has as many entries as there are files reported
\* with the status Success, and the document of each of them is in it.
C27_OneDocumentPerSuccess ==
    (pc = "upload" /\ batch.done) =>
        /\ Len(batch.converted_files) = Cardinality(Successes)
        /\ \A k \in Successes :
               \E e \in 1..Len(batch.converted_files) :
                   batch.converted_files[e].value = batch.all_stats[k].file

(***************************************************************************)
(* The two implementations on one decoded text: srt_parser.SRTParser       *)
(* (lines 114-123, its entries projected by to_dict) and app.SRTParser     *)
(* (lines 155-162).                                                        *)
(***************************************************************************)
\* [entry.to_dict() for entry in subtitles]: the four fields of each entry
Projected(subs) ==
    [k \in 1..Len(subs) |->
        [index |-> subs[k].index, start_time |-> subs[k].start_time,
         end_time |-> subs[k].end_time, text |-> subs[k].text]]

InitAgree ==
    /\ impl = "srt_parser"
    /\ pc = "start"
    /\ \E ks \in BlockLists :
           /\ blocks = BlocksOf(ks)
           /\ content = Render(BlocksOf(ks))
    /\ bytes = <<>>
    /\ Idle

\* Both parsers are run on the text: once holds what srt_parser returns,
\* twice what app returns.
ParseBoth ==
    /\ pc = "start"
    /\ once' = Projected(parse_text(content))
    /\ twice' = app_parse_text(content)
    /\ pc' = "both"
    /\ UNCHANGED <<impl, bytes, blocks, content, tried, regexOut, subtitles,
                   fallbackRan>>
    /\ UNCHANGED callers

NextAgree == ParseBoth

SpecAgree == InitAgree /\ [][NextAgree]_vars

\* C29 - The two parser implementations agree: on every decoded text both
\* return the same sequence of (index, start_time, end_time, text) values.
C29_ParsersAgree == pc = "both" => once = twice

(***************************************************************************)
(* Which decoder candidates are reached, under Spec.                       *)
(***************************************************************************)
\* C30 - Reachability of decoder candidates: the decoded text is produced by
\* utf-8-sig or by latin-1; no candidate listed after latin-1 is tried, so
\* at most the first three are; _read_file does not raise its ValueError
\* and _decode does not come to its replacement-character fallback.
C30_CandidatesReached ==
    /\ pc # "raised"
    /\ tried # <<>> =>
           /\ Len(tried) <= 3
           /\ tried = SubSeq(PriorityList, 1, Len(tried))
           /\ tried[Len(tried)] \in {"utf-8-sig", "latin-1"}

\* A buffer that is not UTF-8 was decoded by latin-1, the third candidate.
C30_Witness ==
    /\ pc = "read"
    /\ ~DecodeUtf8(bytes).ok
    /\ tried = <<"utf-8-sig", "utf-8", "latin-1">>
    /\ content = bytes

====
